---- MODULE Spec2Model ----
(***************************************************************************)
(* A model of the WebAuth keyring (lib/keyring.c) and token encoding      *)
(* (lib/token-encode.c) layers.                                            *)
(*                                                                         *)
(* The module holds three specifications over one set of variables:        *)
(*   SpecRing   in-memory keyring operations: add, from_key, remove,       *)
(*              best_key, and the wall clock;                              *)
(*   SpecFile   keyring persistence: read, the steps of write, and         *)
(*              auto_update, over a small file system;                     *)
(*   SpecToken  token validation, encode and decode.                       *)
(* C arrays are 0-based and the sequences here are 1-based: the entry at   *)
(* C index i is element i + 1.                                             *)
(***************************************************************************)
EXTENDS Integers, Sequences, FiniteSets, TLC

(***************************************************************************)
(* Bounds of the model.                                                    *)
(***************************************************************************)
\* The longest keyring SpecRing builds with add.
MaxEntries == 2
\* The last instant of the wall clock; timestamps range over 0..MaxTime.
MaxTime == 2
\* The number of distinct key materials the random source can produce.
NumKeys == 2
\* The number of auto_update calls SpecFile follows.
MaxCalls == 1
\* The width in bits of time_t and of unsigned long (64 in the build).
TimeBits == 4

(***************************************************************************)
(* Program constants.                                                      *)
(***************************************************************************)
KEYRING_VERSION == 1
WA_KEY_AES == 1
WA_AES_128 == 16
WA_AES_192 == 24
WA_AES_256 == 32

\* Bytes of the attribute stream that the wire format names.
CH_EQ == 61
CH_SEMI == 59
CH_BSL == 92
CH_ZERO == 48

VARIABLES
    now,        \* the wall clock, time(NULL)
    ring,       \* SpecRing: the entries of the keyring under test
    res,        \* SpecRing: the last operation, its arguments and its results
    file,       \* SpecFile: the file at the keyring path
    temp,       \* SpecFile: per process, the temporary file of its write
    stale,      \* SpecFile: temporaries that earlier calls left on disk
    call,       \* SpecFile: per process, the auto_update call in progress
    calls,      \* SpecFile: the number of auto_update calls made
    tok,        \* SpecToken: the last token encoded and its decoding
    dec         \* SpecDecode, SpecCodec: the keyring bytes and their decoding

ringVars == <<ring, res>>
fileVars == <<file, temp, stale, call, calls>>
tokVars == <<tok>>
codecVars == <<dec>>
vars == <<now, ring, res, file, temp, stale, call, calls, tok, dec>>

(***************************************************************************)
(* Keys.                                                                   *)
(***************************************************************************)
\* The k-th key material the random source can yield: WA_AES_128 bytes,
\* among them the bytes the attribute stream has to escape.
KeyMaterial(k) ==
    [i \in 1..WA_AES_128 |->
        IF i = 1 THEN CH_ZERO + k
        ELSE IF i = 2 THEN CH_SEMI
        ELSE IF i = 3 THEN CH_BSL
        ELSE IF i = 4 THEN CH_EQ
        ELSE 64 + ((i + k) % 8)]

\* No key: the NULL of a struct webauth_key pointer.
NoKey == [type |-> 0, length |-> 0, data |-> <<>>]

\* webauth_key_create with key material given: the type must be AES and the
\* length one of the three AES sizes.
KeyCreate(type, length, material) ==
    IF type # WA_KEY_AES
        THEN [status |-> "INVALID", key |-> NoKey]
    ELSE IF length \notin {WA_AES_128, WA_AES_192, WA_AES_256}
        THEN [status |-> "INVALID", key |-> NoKey]
    ELSE [status |-> "NONE",
          key |-> [type |-> type, length |-> length,
                   data |-> SubSeq(material, 1, length)]]

\* webauth_key_create with NULL material: the outcomes of drawing a random
\* key, a failure of the random source among them.
RandomKeyOutcomes(type, length) ==
    {[status |-> "RAND_FAILURE", key |-> NoKey]}
    \cup {KeyCreate(type, length, KeyMaterial(k)) : k \in 1..NumKeys}

\* webauth_key_copy: a new key of the same content.
KeyCopy(key) == [type |-> key.type, length |-> key.length, data |-> key.data]

\* The two keys SpecRing and SpecToken hand to add.
KeyPool == {KeyCreate(WA_KEY_AES, WA_AES_128, KeyMaterial(k)).key : k \in {1, 2}}

\* The <<creation, valid_after>> pairs SpecRing passes to add: creation unset
\* (with valid_after unset or set) and creation set with every valid_after.
AddInputs == {<<0, 0>>, <<0, 1>>} \cup {<<1, v>> : v \in 0..MaxTime}

(***************************************************************************)
(* The keyring in memory (lib/keyring.c).                                  *)
(***************************************************************************)
\* webauth_keyring_new: no entries.
KeyringNew == <<>>

\* webauth_keyring_add: push one entry holding the two times as passed and a
\* copy of the key.
KeyringAdd(entries, creation, valid_after, key) ==
    Append(entries, [creation |-> creation, valid_after |-> valid_after,
                     key |-> KeyCopy(key)])

\* webauth_keyring_from_key: a new keyring with the key added at times 0, 0.
KeyringFromKey(key) == KeyringAdd(KeyringNew, 0, 0, key)

\* The loop of webauth_keyring_remove from C index i: copy each entry one
\* place down.
RECURSIVE RemoveShift(_, _)
RemoveShift(entries, i) ==
    IF i < Len(entries)
        THEN RemoveShift([entries EXCEPT ![i] = entries[i + 1]], i + 1)
        ELSE entries

\* A removal that drops the last entry without moving the others down.
KeyringRemove_PopOnly(entries, n) ==
    IF n >= Len(entries)
        THEN [status |-> "NOT_FOUND", entries |-> entries]
        ELSE [status |-> "NONE",
              entries |-> SubSeq(entries, 1, Len(entries) - 1)]

\* webauth_keyring_remove: n is the C index.
KeyringRemove(entries, n) ==
    IF n >= Len(entries)
        THEN [status |-> "NOT_FOUND", entries |-> entries]
        ELSE LET shifted == RemoveShift(entries, n + 1)
             IN [status |-> "NONE",
                 entries |-> SubSeq(shifted, 1, Len(shifted) - 1)]

\* An encryption choice that lets a later entry of equal valid_after win.
EncryptTakes_NonStrict(entries, best, valid) ==
    best = 0 \/ valid >= entries[best].valid_after

\* An encryption choice that keeps the first usable entry.
EncryptTakes_First(entries, best, valid) ==
    best = 0

\* best_key, usage ENCRYPT: whether the entry replaces best (0 is NULL).
EncryptTakes(entries, best, valid) ==
    best = 0 \/ valid > entries[best].valid_after

\* A decryption choice that keeps the earlier entry of equal valid_after.
DecryptTakes_Strict(entries, best, valid, hint) ==
    hint >= valid /\ (best = 0 \/ valid > entries[best].valid_after)

\* best_key, usage DECRYPT: whether the entry replaces best (0 is NULL).
DecryptTakes(entries, best, valid, hint) ==
    hint >= valid /\ (best = 0 \/ valid >= entries[best].valid_after)

\* The loop of webauth_keyring_best_key from element i with the best so far.
RECURSIVE BestKeyLoop(_, _, _, _, _, _)
BestKeyLoop(entries, usage, hint, t, i, best) ==
    IF i > Len(entries) THEN best
    ELSE LET valid == entries[i].valid_after
         IN IF valid > t
                THEN BestKeyLoop(entries, usage, hint, t, i + 1, best)
            ELSE IF usage = "ENCRYPT"
                THEN BestKeyLoop(entries, usage, hint, t, i + 1,
                         IF EncryptTakes(entries, best, valid) THEN i ELSE best)
            ELSE BestKeyLoop(entries, usage, hint, t, i + 1,
                         IF DecryptTakes(entries, best, valid, hint)
                             THEN i ELSE best)

\* webauth_keyring_best_key at time t: the status, the element chosen (0 for
\* none) and the key stored in *output.
BestKey(entries, usage, hint, t) ==
    LET best == BestKeyLoop(entries, usage, hint, t, 1, 0)
    IN IF best = 0
           THEN [status |-> "NOT_FOUND", idx |-> 0, output |-> NoKey]
           ELSE [status |-> "NONE", idx |-> best, output |-> entries[best].key]

(***************************************************************************)
(* The attribute stream: name '=' value ';' records, with a backslash      *)
(* before a ';' or a backslash in the value, and numbers in ASCII decimal. *)
(***************************************************************************)
RECURSIVE ToDecimal(_)
ToDecimal(n) ==
    IF n < 10 THEN <<CH_ZERO + n>>
    ELSE Append(ToDecimal(n \div 10), CH_ZERO + (n % 10))

IsDecimal(bytes) ==
    /\ Len(bytes) > 0
    /\ \A i \in 1..Len(bytes) : bytes[i] >= CH_ZERO /\ bytes[i] <= CH_ZERO + 9

RECURSIVE FromDecimal(_)
FromDecimal(bytes) ==
    IF Len(bytes) = 0 THEN 0
    ELSE 10 * FromDecimal(SubSeq(bytes, 1, Len(bytes) - 1))
         + (bytes[Len(bytes)] - CH_ZERO)

RECURSIVE Escape(_)
Escape(bytes) ==
    IF Len(bytes) = 0 THEN <<>>
    ELSE (IF Head(bytes) \in {CH_SEMI, CH_BSL}
              THEN <<CH_BSL, Head(bytes)>> ELSE <<Head(bytes)>>)
         \o Escape(Tail(bytes))

\* One attribute on the wire.
EncodeAttr(name, value) == name \o <<CH_EQ>> \o Escape(value) \o <<CH_SEMI>>

\* The scan of one value from byte i to the ';' that ends it: a backslash
\* makes the byte after it stand for itself.  next is the byte after the
\* ';'.
RECURSIVE ScanValue(_, _, _)
ScanValue(bytes, i, acc) ==
    IF i > Len(bytes) THEN [ok |-> FALSE, value |-> <<>>, next |-> i]
    ELSE IF bytes[i] = CH_BSL
        THEN IF i = Len(bytes)
                 THEN [ok |-> FALSE, value |-> <<>>, next |-> i]
                 ELSE ScanValue(bytes, i + 2, Append(acc, bytes[i + 1]))
    ELSE IF bytes[i] = CH_SEMI
        THEN [ok |-> TRUE, value |-> acc, next |-> i + 1]
    ELSE ScanValue(bytes, i + 1, Append(acc, bytes[i]))

\* The scan of a stream from byte start, one attribute a step: acc holds the
\* attributes read so far.
RECURSIVE ParseFrom(_, _, _)
ParseFrom(bytes, start, acc) ==
    IF start > Len(bytes) THEN [ok |-> TRUE, attrs |-> acc]
    ELSE LET eqs == {i \in start..Len(bytes) : bytes[i] = CH_EQ}
         IN IF eqs = {} THEN [ok |-> FALSE, attrs |-> <<>>]
            ELSE LET eq == CHOOSE i \in eqs : \A j \in eqs : i <= j
                     v == ScanValue(bytes, eq + 1, <<>>)
                 IN IF eq = start \/ ~v.ok
                        THEN [ok |-> FALSE, attrs |-> <<>>]
                        ELSE ParseFrom(bytes, v.next,
                                 Append(acc,
                                     [name |-> SubSeq(bytes, start, eq - 1),
                                      value |-> v.value]))

\* A stream parsed into its attributes; malformed framing is not ok.
ParseStream(bytes) == ParseFrom(bytes, 1, <<>>)

HasAttr(attrs, name) == \E i \in 1..Len(attrs) : attrs[i].name = name

\* The value of the first attribute of that name.
AttrValue(attrs, name) ==
    attrs[CHOOSE i \in 1..Len(attrs) :
              /\ attrs[i].name = name
              /\ \A j \in 1..(i - 1) : attrs[j].name # name].value

\* Attribute names of the keyring file: v, n, and ct, va, kt, kd with the
\* index of the entry.
NAME_V == <<118>>
NAME_N == <<110>>
NAME_CT(i) == <<99, 116>> \o ToDecimal(i)
NAME_VA(i) == <<118, 97>> \o ToDecimal(i)
NAME_KT(i) == <<107, 116>> \o ToDecimal(i)
NAME_KD(i) == <<107, 100>> \o ToDecimal(i)

\* The entries of a struct wai_keyring on the wire, from C index i.
RECURSIVE EncodeEntries(_, _)
EncodeEntries(entry, i) ==
    IF i >= Len(entry) THEN <<>>
    ELSE EncodeAttr(NAME_CT(i), ToDecimal(entry[i + 1].creation))
         \o EncodeAttr(NAME_VA(i), ToDecimal(entry[i + 1].valid_after))
         \o EncodeAttr(NAME_KT(i), ToDecimal(entry[i + 1].key_type))
         \o EncodeAttr(NAME_KD(i),
                       SubSeq(entry[i + 1].key, 1, entry[i + 1].key_len))
         \o EncodeEntries(entry, i + 1)

\* webauth_encode with the keyring rules: a struct wai_keyring to bytes.
WaiKeyringEncode(data) ==
    EncodeAttr(NAME_V, ToDecimal(data.version))
    \o EncodeAttr(NAME_N, ToDecimal(data.entry_count))
    \o EncodeEntries(data.entry, 0)

NoWaiKeyring == [version |-> 0, entry_count |-> 0, entry |-> <<>>]

\* Whether the attributes hold a well-typed entry of C index i.
EntryPresent(attrs, i) ==
    /\ HasAttr(attrs, NAME_CT(i)) /\ IsDecimal(AttrValue(attrs, NAME_CT(i)))
    /\ HasAttr(attrs, NAME_VA(i)) /\ IsDecimal(AttrValue(attrs, NAME_VA(i)))
    /\ HasAttr(attrs, NAME_KT(i)) /\ IsDecimal(AttrValue(attrs, NAME_KT(i)))
    /\ HasAttr(attrs, NAME_KD(i))

\* webauth_decode with the keyring rules: bytes to a struct wai_keyring.
\* Malformed framing, a missing attribute and a number that is no number
\* are CORRUPT; attributes the rules do not name are ignored.
WaiKeyringDecode(bytes) ==
    LET p == ParseStream(bytes)
        corrupt == [status |-> "CORRUPT", data |-> NoWaiKeyring]
    IN IF ~p.ok THEN corrupt
       ELSE IF ~(HasAttr(p.attrs, NAME_V) /\ IsDecimal(AttrValue(p.attrs, NAME_V)))
           THEN corrupt
       ELSE IF ~(HasAttr(p.attrs, NAME_N) /\ IsDecimal(AttrValue(p.attrs, NAME_N)))
           THEN corrupt
       ELSE LET count == FromDecimal(AttrValue(p.attrs, NAME_N))
            IN IF \E i \in 0..(count - 1) : ~EntryPresent(p.attrs, i)
                   THEN corrupt
                   ELSE [status |-> "NONE",
                         data |->
                           [version |-> FromDecimal(AttrValue(p.attrs, NAME_V)),
                            entry_count |-> count,
                            entry |->
                              [i \in 1..count |->
                                 [creation |-> FromDecimal(AttrValue(p.attrs, NAME_CT(i - 1))),
                                  valid_after |-> FromDecimal(AttrValue(p.attrs, NAME_VA(i - 1))),
                                  key_type |-> FromDecimal(AttrValue(p.attrs, NAME_KT(i - 1))),
                                  key |-> AttrValue(p.attrs, NAME_KD(i - 1)),
                                  key_len |-> Len(AttrValue(p.attrs, NAME_KD(i - 1)))]]]]

(***************************************************************************)
(* The keyring on disk (lib/keyring.c).                                    *)
(***************************************************************************)
\* A struct webauth_keyring pointer: NULL, or a keyring with its entries.
NoRing == [null |-> TRUE, entries |-> <<>>]
RingOf(entries) == [null |-> FALSE, entries |-> entries]

\* An encode that stores the creation time of an entry as its valid_after.
KeyringEncode_CreationTwice(entries) ==
    WaiKeyringEncode(
        [version |-> KEYRING_VERSION,
         entry_count |-> Len(entries),
         entry |-> [i \in 1..Len(entries) |->
                      [creation |-> entries[i].creation,
                       valid_after |-> entries[i].creation,
                       key_type |-> entries[i].key.type,
                       key |-> entries[i].key.data,
                       key_len |-> entries[i].key.length]]])

\* webauth_keyring_encode: the keyring as a struct wai_keyring, encoded.
KeyringEncode(entries) ==
    WaiKeyringEncode(
        [version |-> KEYRING_VERSION,
         entry_count |-> Len(entries),
         entry |-> [i \in 1..Len(entries) |->
                      [creation |-> entries[i].creation,
                       valid_after |-> entries[i].valid_after,
                       key_type |-> entries[i].key.type,
                       key |-> entries[i].key.data,
                       key_len |-> entries[i].key.length]]])

\* A loop that hands back the keyring built so far when a key cannot be
\* made.
RECURSIVE DecodeEntries_Partial(_, _, _)
DecodeEntries_Partial(data, i, entries) ==
    IF i > data.entry_count THEN [status |-> "NONE", ring |-> RingOf(entries)]
    ELSE LET e == data.entry[i]
             k == KeyCreate(e.key_type, e.key_len, e.key)
         IN IF k.status # "NONE"
                THEN [status |-> k.status, ring |-> RingOf(entries)]
                ELSE DecodeEntries_Partial(data, i + 1,
                         KeyringAdd(entries, e.creation, e.valid_after, k.key))

\* The loop of webauth_keyring_decode from entry i of data: each entry's key
\* is made with webauth_key_create and added; the first failure ends the
\* decode with that status and no keyring.
RECURSIVE DecodeEntries(_, _, _)
DecodeEntries(data, i, entries) ==
    IF i > data.entry_count THEN [status |-> "NONE", ring |-> RingOf(entries)]
    ELSE LET e == data.entry[i]
             k == KeyCreate(e.key_type, e.key_len, e.key)
         IN IF k.status # "NONE"
                THEN [status |-> k.status, ring |-> NoRing]
                ELSE DecodeEntries(data, i + 1,
                         KeyringAdd(entries, e.creation, e.valid_after, k.key))

\* A decode that makes the keys before it looks at the version.
KeyringDecode_EntriesFirst(bytes) ==
    LET d == WaiKeyringDecode(bytes)
        r == DecodeEntries(d.data, 1, KeyringNew)
    IN IF d.status # "NONE" THEN [status |-> d.status, ring |-> NoRing]
       ELSE IF r.status # "NONE" THEN r
       ELSE IF d.data.version # KEYRING_VERSION
           THEN [status |-> "FILE_VERSION", ring |-> NoRing]
       ELSE r

\* webauth_keyring_decode: the status and *output.
KeyringDecode(bytes) ==
    LET d == WaiKeyringDecode(bytes)
    IN IF d.status # "NONE" THEN [status |-> d.status, ring |-> NoRing]
       ELSE IF d.data.version # KEYRING_VERSION
           THEN [status |-> "FILE_VERSION", ring |-> NoRing]
       ELSE DecodeEntries(d.data, 1, KeyringNew)

\* A file: absent, or present with its bytes.
NoFile == [exists |-> FALSE, data |-> <<>>]
FileOf(data) == [exists |-> TRUE, data |-> data]

\* wai_file_read: FILE_NOT_FOUND for an absent file; a present file is read
\* whole, unless opening or reading it fails.
FileReadOutcomes(f) ==
    IF ~f.exists
        THEN {[status |-> "FILE_NOT_FOUND", data |-> <<>>]}
        ELSE {[status |-> "NONE", data |-> f.data],
              [status |-> "FILE_OPENREAD", data |-> <<>>],
              [status |-> "FILE_READ", data |-> <<>>]}

\* webauth_keyring_read: *ring is NULL unless the file is read and decoded.
KeyringReadOutcomes(f) ==
    {IF r.status # "NONE"
         THEN [status |-> r.status, ring |-> NoRing]
         ELSE KeyringDecode(r.data) : r \in FileReadOutcomes(f)}

\* The greatest time_t and the greatest unsigned long.
TIME_MAX == 2 ^ (TimeBits - 1) - 1
ULONG_MAX == 2 ^ TimeBits - 1

\* (time_t) lifetime: an unsigned long above TIME_MAX wraps to a negative.
ToTimeT(u) == IF u > TIME_MAX THEN u - 2 ^ TimeBits ELSE u

\* check_ring's test entry->valid_after + (time_t) lifetime > now at time t.
\* A sum above TIME_MAX overflows time_t, and the test may come out either
\* way.
RecentOutcomes(valid_after, lifetime, t) ==
    LET sum == valid_after + ToTimeT(lifetime)
    IN IF sum > TIME_MAX THEN {TRUE, FALSE} ELSE {sum > t}

\* The loop of check_ring from element i: TRUE when it returns early on a
\* recent enough entry, FALSE when it falls through to add a key.
RECURSIVE RecentFound(_, _, _, _)
RecentFound(entries, lifetime, t, i) ==
    IF i > Len(entries) THEN {FALSE}
    ELSE LET r == RecentOutcomes(entries[i].valid_after, lifetime, t)
         IN (IF TRUE \in r THEN {TRUE} ELSE {})
            \cup (IF FALSE \in r
                      THEN RecentFound(entries, lifetime, t, i + 1) ELSE {})

\* apr_file_write_full into the temporary: the bytes written so far.
FsWriteData_ToPath(f, t, data) == [file |-> FileOf(data), temp |-> t]
FsWriteData(f, t, data) == [file |-> f, temp |-> FileOf(data)]

\* apr_file_rename of the temporary onto the path.
FsRename(f, t) == [file |-> t, temp |-> NoFile]

\* The done: block of webauth_keyring_write: the temporary is closed and
\* removed only while its handle is still open.
DoneCleanup(fopen, t) == IF fopen THEN NoFile ELSE t

\* The processes that may call auto_update.
Procs == {1, 2}

\* No call in progress.
IdleCall ==
    [pc |-> "idle", create |-> FALSE, lifetime |-> 0, at |-> 0,
     fileBefore |-> NoFile, readStatus |-> "NONE", ringRead |-> NoRing,
     keyStatus |-> "NONE", ring |-> NoRing, via |-> "none",
     buf |-> <<>>, fopen |-> FALSE, made |-> FALSE, wstatus |-> "NONE",
     updated |-> "NONE", update_status |-> "NONE", status |-> "NONE"]

\* No token: the NULL of a struct webauth_token pointer.
NoToken == [type |-> "NULL", token |-> <<>>]

\* No ciphertext: the NULL of an encoded token.
NoWire == [null |-> TRUE, hint |-> <<>>, key |-> NoKey, plain |-> <<>>]

\* No token encoded yet.
NoTok ==
    [pc |-> "idle", data |-> NoToken, ring |-> NoRing, encAt |-> 0,
     encStatus |-> "NONE", token |-> NoWire, type |-> "ANY",
     decRing |-> NoRing, decAt |-> 0, decStatus |-> "NONE",
     decoded |-> NoToken]

\* No keyring bytes decoded yet.
NoDec ==
    [pc |-> "idle", data |-> NoWaiKeyring, from |-> <<>>, bytes |-> <<>>,
     status |-> "NONE", ring |-> NoRing]

InitFileIdle ==
    /\ tok = NoTok
    /\ dec = NoDec
    /\ file = NoFile
    /\ temp = [p \in Procs |-> NoFile]
    /\ stale = 0
    /\ call = [p \in Procs |-> IdleCall]
    /\ calls = 0

(***************************************************************************)
(* SpecRing: the in-memory operations.                                     *)
(***************************************************************************)
NoRes ==
    [op |-> "none", usage |-> "ENCRYPT", hint |-> 0, n |-> 0, creation |-> 0,
     valid_after |-> 0, key |-> NoKey, before |-> <<>>, at |-> 0,
     status |-> "NONE", idx |-> 0, output |-> NoKey]

InitRing ==
    /\ now = 1
    /\ ring = KeyringNew
    /\ res = NoRes
    /\ InitFileIdle

\* time(NULL) moves on.
Tick ==
    /\ now < MaxTime
    /\ now' = now + 1
    /\ UNCHANGED <<ringVars, fileVars, tokVars, codecVars>>

Add(creation, valid_after, key) ==
    /\ Len(ring) < MaxEntries
    /\ ring' = KeyringAdd(ring, creation, valid_after, key)
    /\ res' = [NoRes EXCEPT !.op = "add", !.creation = creation,
                            !.valid_after = valid_after, !.key = key,
                            !.before = ring, !.at = now]
    /\ UNCHANGED <<now, fileVars, tokVars, codecVars>>

FromKey(key) ==
    /\ ring' = KeyringFromKey(key)
    /\ res' = [NoRes EXCEPT !.op = "from_key", !.key = key, !.at = now]
    /\ UNCHANGED <<now, fileVars, tokVars, codecVars>>

Remove(n) ==
    LET r == KeyringRemove(ring, n)
    IN /\ ring' = r.entries
       /\ res' = [NoRes EXCEPT !.op = "remove", !.n = n, !.before = ring,
                               !.at = now, !.status = r.status]
       /\ UNCHANGED <<now, fileVars, tokVars, codecVars>>

BestKeyCall(usage, hint) ==
    LET r == BestKey(ring, usage, hint, now)
    IN /\ res' = [NoRes EXCEPT !.op = "best_key", !.usage = usage,
                               !.hint = hint, !.before = ring, !.at = now,
                               !.status = r.status, !.idx = r.idx,
                               !.output = r.output]
       /\ UNCHANGED <<now, ring, fileVars, tokVars, codecVars>>

NextRing ==
    \/ Tick
    \/ \E cv \in AddInputs, k \in KeyPool : Add(cv[1], cv[2], k)
    \/ \E k \in KeyPool : FromKey(k)
    \/ \E n \in 0..MaxEntries : Remove(n)
    \/ \E u \in {"ENCRYPT", "DECRYPT"}, h \in 0..MaxTime : BestKeyCall(u, h)

SpecRing == InitRing /\ [][NextRing]_vars

(***************************************************************************)
(* Properties of the in-memory operations, checked under SpecRing.  res    *)
(* holds the last call: its arguments, the keyring before it (before), the *)
(* clock at it (at) and what it returned.                                  *)
(***************************************************************************)
\* The elements of a keyring whose valid_after is not after time t.
Usable(entries, t) == {i \in 1..Len(entries) : entries[i].valid_after <= t}

\* The elements of cands with the greatest valid_after among cands.
Newest(entries, cands) ==
    {i \in cands : \A j \in cands : entries[j].valid_after <= entries[i].valid_after}

SetMax(S) == CHOOSE x \in S : \A y \in S : y <= x
SetMin(S) == CHOOSE x \in S : \A y \in S : x <= y

\* C2: best_key with usage ENCRYPT, whatever the hint, returns the key of an
\* entry with valid_after <= now whose valid_after is the maximum among the
\* entries with valid_after <= now, and fails with NOT_FOUND and a NULL
\* output exactly when there is no such entry.
C2_EncryptReturnsNewestUsable ==
    (res.op = "best_key" /\ res.usage = "ENCRYPT") =>
        LET cands == Usable(res.before, res.at)
        IN /\ res.status \in {"NONE", "NOT_FOUND"}
           /\ (res.status = "NOT_FOUND") <=> (cands = {})
           /\ (res.status = "NOT_FOUND") => (res.output = NoKey /\ res.idx = 0)
           /\ (res.status = "NONE") =>
                 /\ res.idx \in Newest(res.before, cands)
                 /\ res.output = res.before[res.idx].key

\* C2's case: a hint other than zero, two usable entries of different
\* valid_after, and the later-added, newer one returned.
C2_Witness ==
    /\ res.op = "best_key" /\ res.usage = "ENCRYPT" /\ res.hint > 0
    /\ res.status = "NONE" /\ res.idx = 2
    /\ Usable(res.before, res.at) = {1, 2}
    /\ res.before[1].valid_after < res.before[2].valid_after
    /\ res.before[1].key # res.before[2].key

\* C3 as stated: among several usable entries that share the maximum
\* valid_after, best_key with usage ENCRYPT returns the one at the highest
\* index.
C3_EncryptTieLastWins ==
    (res.op = "best_key" /\ res.usage = "ENCRYPT" /\ res.status = "NONE") =>
        res.idx = SetMax(Newest(res.before, Usable(res.before, res.at)))

\* C3 as amended: among several usable entries that share the maximum
\* valid_after, best_key with usage ENCRYPT returns the key of the one that
\* was inserted first (the lowest index).
C3_EncryptTieFirstWins ==
    (res.op = "best_key" /\ res.usage = "ENCRYPT" /\ res.status = "NONE") =>
        /\ res.idx = SetMin(Newest(res.before, Usable(res.before, res.at)))
        /\ res.output = res.before[res.idx].key

\* C3's case: two usable entries of equal valid_after and different keys.
C3_Witness ==
    /\ res.op = "best_key" /\ res.usage = "ENCRYPT" /\ res.status = "NONE"
    /\ Newest(res.before, Usable(res.before, res.at)) = {1, 2}
    /\ res.before[1].key # res.before[2].key

\* The elements best_key may return for decryption with hint h at time t.
Decryptable(entries, h, t) ==
    {i \in 1..Len(entries) :
        entries[i].valid_after <= h /\ entries[i].valid_after <= t}

\* C4: best_key with usage DECRYPT and hint h returns the key of an entry
\* with valid_after <= h and valid_after <= now whose valid_after is the
\* greatest among such entries, the highest index among equals; it fails
\* with NOT_FOUND exactly when no entry meets both bounds, and never returns
\* an entry with valid_after > h.
C4_DecryptReturnsNewestUpToHint ==
    (res.op = "best_key" /\ res.usage = "DECRYPT") =>
        LET cands == Decryptable(res.before, res.hint, res.at)
        IN /\ res.status \in {"NONE", "NOT_FOUND"}
           /\ (res.status = "NOT_FOUND") <=> (cands = {})
           /\ (res.status = "NOT_FOUND") => (res.output = NoKey /\ res.idx = 0)
           /\ (res.status = "NONE") =>
                 /\ res.idx = SetMax(Newest(res.before, cands))
                 /\ res.output = res.before[res.idx].key
                 /\ res.before[res.idx].valid_after <= res.hint

\* C4's case: a hint before now, two entries within the hint of equal
\* valid_after and different keys, the later one returned.
C4_Witness ==
    /\ res.op = "best_key" /\ res.usage = "DECRYPT" /\ res.status = "NONE"
    /\ res.hint < res.at
    /\ Newest(res.before, Decryptable(res.before, res.hint, res.at)) = {1, 2}
    /\ res.before[1].key # res.before[2].key
    /\ res.idx = 2

\* The time an entry holds for a time passed to add, were zero replaced by
\* the current time.
ZeroIsNow(t, at) == IF t = 0 THEN at ELSE t

\* C5 as stated: add (and from_key, which adds with both times zero) appends
\* exactly one entry holding a copy of the key, and a creation or
\* valid_after passed as zero is stored as the current time.
C5_AddStoresNowForZero ==
    (res.op \in {"add", "from_key"}) =>
        /\ Len(ring) = Len(res.before) + 1
        /\ SubSeq(ring, 1, Len(res.before)) = res.before
        /\ ring[Len(ring)].key = res.key
        /\ ring[Len(ring)].creation = ZeroIsNow(res.creation, res.at)
        /\ ring[Len(ring)].valid_after = ZeroIsNow(res.valid_after, res.at)

InitEntry(v) ==
    [creation |-> v, valid_after |-> v,
     key |-> KeyCreate(WA_KEY_AES, WA_AES_128, KeyMaterial(1)).key]

InitRings ==
    {<<>>}
    \cup {<<InitEntry(v)>> : v \in 0..MaxTime}
    \cup {<<InitEntry(v), InitEntry(w)>> : v \in 0..MaxTime, w \in 0..1}

\* The file at the start: absent, a written keyring, a keyring of another
\* format version, or a keyring cut short.
InitFiles ==
    {NoFile}
    \cup {FileOf(KeyringEncode(r)) : r \in InitRings}
    \cup {FileOf(WaiKeyringEncode([version |-> 2, entry_count |-> 0, entry |-> <<>>])),
          FileOf(SubSeq(KeyringEncode(<<InitEntry(0)>>), 1, 12))}

\* The lifetimes passed to auto_update: the small ones, the greatest time_t
\* and the greatest unsigned long.
LifetimeInputs == (0..MaxTime) \cup {TIME_MAX, ULONG_MAX}

\* Where a write may stop short: the lengths of a partial temporary.
PartialLens(buf) == {Len(buf) \div 2, Len(buf) - 1}

InitFile ==
    /\ now = 1
    /\ ring = KeyringNew
    /\ res = NoRes
    /\ file \in InitFiles
    /\ temp = [p \in Procs |-> NoFile]
    /\ stale = 0
    /\ call = [p \in Procs |-> IdleCall]
    /\ calls = 0
    /\ tok = NoTok
    /\ dec = NoDec

\* A return that hands the status of the write back as the status of
\* auto_update whichever function called it.
Returned_AsStatus(c, s) ==
    [c EXCEPT !.pc = "returned", !.fopen = FALSE, !.wstatus = s,
              !.update_status = s, !.status = s]

\* The call record when webauth_keyring_write returns s: new_ring returns it
\* as the status of auto_update, check_ring as *update_status.
Returned(c, s) ==
    IF c.via = "new_ring"
        THEN [c EXCEPT !.pc = "returned", !.fopen = FALSE, !.wstatus = s,
                       !.status = s]
        ELSE [c EXCEPT !.pc = "returned", !.fopen = FALSE, !.wstatus = s,
                       !.update_status = s, !.status = "NONE"]

\* A new_ring that adds its key with both times zero, as from_key does.
NewRingStep_ZeroTimes(c, key, t) ==
    IF key.status # "NONE"
        THEN [c EXCEPT !.pc = "returned", !.keyStatus = key.status,
                       !.status = key.status]
        ELSE [c EXCEPT !.pc = "w_mktemp", !.via = "new_ring",
                       !.ring = RingOf(KeyringAdd(KeyringNew, 0, 0, key.key))]

\* new_ring up to its call of webauth_keyring_write, with key the outcome of
\* webauth_key_create.
NewRingStep(c, key, t) ==
    IF key.status # "NONE"
        THEN [c EXCEPT !.pc = "returned", !.keyStatus = key.status,
                       !.status = key.status]
        ELSE [c EXCEPT !.pc = "w_mktemp", !.via = "new_ring",
                       !.ring = RingOf(KeyringAdd(KeyringNew, t, t, key.key))]

\* A check_ring that starts a keyring of the new key alone.
CheckRingStep_FreshRing(c, recent, key, t) ==
    IF recent THEN [c EXCEPT !.pc = "returned"]
    ELSE IF key.status # "NONE"
        THEN [c EXCEPT !.pc = "returned", !.updated = "UPDATE",
                       !.keyStatus = key.status, !.update_status = key.status]
    ELSE [c EXCEPT !.pc = "w_mktemp", !.via = "check_ring",
                   !.updated = "UPDATE",
                   !.ring = RingOf(KeyringAdd(KeyringNew, t, t, key.key))]

\* check_ring up to its call of webauth_keyring_write: recent is the outcome
\* of its loop and key that of webauth_key_create.
CheckRingStep(c, recent, key, t) ==
    IF recent THEN [c EXCEPT !.pc = "returned"]
    ELSE IF key.status # "NONE"
        THEN [c EXCEPT !.pc = "returned", !.updated = "UPDATE",
                       !.keyStatus = key.status, !.update_status = key.status]
    ELSE [c EXCEPT !.pc = "w_mktemp", !.via = "check_ring",
                   !.updated = "UPDATE",
                   !.ring = RingOf(KeyringAdd(c.ring.entries, t, t, key.key))]

\* An auto_update that rotates whatever the lifetime.
RotationAsked_Always(lifetime) == TRUE

\* webauth_keyring_auto_update: whether check_ring is called at all.
RotationAsked(lifetime) == lifetime > 0

\* An auto_update that, asked to create, makes a new keyring after any
\* failure of the read.
ReadErrorReturned_UnlessCreate(create, status) == ~create

\* webauth_keyring_auto_update: whether the error of the read is returned
\* rather than a new keyring made.
ReadErrorReturned(create, status) == ~create \/ status # "FILE_NOT_FOUND"

\* webauth_keyring_auto_update from its start to its return or to the start
\* of webauth_keyring_write; rd is the outcome of its webauth_keyring_read.
AutoUpdate(p, create, lifetime, rd) ==
    /\ calls' = calls + 1
    /\ stale' = IF temp[p].exists THEN stale + 1 ELSE stale
    /\ temp' = [temp EXCEPT ![p] = NoFile]
    /\  LET c == [IdleCall EXCEPT !.create = create, !.lifetime = lifetime,
                                   !.at = now, !.fileBefore = file,
                                   !.readStatus = rd.status,
                                   !.ringRead = rd.ring, !.ring = rd.ring]
         IN IF rd.status # "NONE"
                THEN IF ReadErrorReturned(create, rd.status)
                         THEN call' = [call EXCEPT ![p] =
                                  [c EXCEPT !.pc = "returned",
                                            !.status = rd.status]]
                         ELSE \E key \in RandomKeyOutcomes(WA_KEY_AES, WA_AES_128) :
                                  call' = [call EXCEPT ![p] =
                                      NewRingStep([c EXCEPT !.updated = "CREATE"],
                                                  key, now)]
            ELSE IF RotationAsked(lifetime)
                THEN \E recent \in RecentFound(rd.ring.entries, lifetime, now, 1),
                        key \in RandomKeyOutcomes(WA_KEY_AES, WA_AES_128) :
                         call' = [call EXCEPT ![p] =
                                     CheckRingStep(c, recent, key, now)]
            ELSE call' = [call EXCEPT ![p] = [c EXCEPT !.pc = "returned"]]
    /\ UNCHANGED <<now, ringVars, tokVars, codecVars, file>>

\* apr_file_mktemp creates <path>.XXXXXX, or fails.
WMktemp(p) ==
    /\ call[p].pc = "w_mktemp"
    /\ \/ /\ temp' = [temp EXCEPT ![p] = FileOf(<<>>)]
          /\ call' = [call EXCEPT ![p] = [@ EXCEPT !.pc = "w_encode",
                                                   !.fopen = TRUE,
                                                   !.made = TRUE]]
       \/ /\ temp' = [temp EXCEPT ![p] = DoneCleanup(call[p].fopen, @)]
          /\ call' = [call EXCEPT ![p] = Returned(@, "FILE_OPENWRITE")]
    /\ UNCHANGED <<now, ringVars, tokVars, codecVars, file, stale, calls>>

\* webauth_keyring_encode of the keyring into buf, or its failure.
WEncode(p) ==
    /\ call[p].pc = "w_encode"
    /\ \/ /\ call' = [call EXCEPT ![p] =
                 [@ EXCEPT !.pc = "w_write",
                           !.buf = KeyringEncode(call[p].ring.entries)]]
          /\ UNCHANGED temp
       \/ /\ temp' = [temp EXCEPT ![p] = DoneCleanup(call[p].fopen, @)]
          /\ call' = [call EXCEPT ![p] = Returned(@, "NO_MEM")]
    /\ UNCHANGED <<now, ringVars, tokVars, codecVars, file, stale, calls>>

\* apr_file_write_full has written the first k bytes.
WWritePart(p, k) ==
    /\ call[p].pc = "w_write"
    /\ temp[p].data = <<>>
    /\ LET fs == FsWriteData(file, temp[p], SubSeq(call[p].buf, 1, k))
       IN /\ file' = fs.file
          /\ temp' = [temp EXCEPT ![p] = fs.temp]
    /\ UNCHANGED <<now, ringVars, tokVars, codecVars, stale, call, calls>>

\* apr_file_write_full writes the whole of buf, or fails.
WWrite(p) ==
    /\ call[p].pc = "w_write"
    /\ \/ LET fs == FsWriteData(file, temp[p], call[p].buf)
          IN /\ file' = fs.file
             /\ temp' = [temp EXCEPT ![p] = fs.temp]
             /\ call' = [call EXCEPT ![p] = [@ EXCEPT !.pc = "w_close"]]
       \/ /\ temp' = [temp EXCEPT ![p] = DoneCleanup(call[p].fopen, @)]
          /\ call' = [call EXCEPT ![p] = Returned(@, "FILE_WRITE")]
          /\ UNCHANGED file
    /\ UNCHANGED <<now, ringVars, tokVars, codecVars, stale, calls>>

\* apr_file_close; file is set to NULL whether or not it succeeds.
WClose(p) ==
    /\ call[p].pc = "w_close"
    /\ \/ /\ call' = [call EXCEPT ![p] = [@ EXCEPT !.pc = "w_rename",
                                                   !.fopen = FALSE]]
          /\ UNCHANGED temp
       \/ /\ temp' = [temp EXCEPT ![p] = DoneCleanup(FALSE, @)]
          /\ call' = [call EXCEPT ![p] = Returned(@, "FILE_WRITE")]
    /\ UNCHANGED <<now, ringVars, tokVars, codecVars, file, stale, calls>>

\* apr_file_rename of the temporary onto the path, or its failure.
WRename(p) ==
    /\ call[p].pc = "w_rename"
    /\ \/ LET fs == FsRename(file, temp[p])
          IN /\ file' = fs.file
             /\ temp' = [temp EXCEPT ![p] = fs.temp]
             /\ call' = [call EXCEPT ![p] = Returned(@, "NONE")]
       \/ /\ temp' = [temp EXCEPT ![p] = DoneCleanup(call[p].fopen, @)]
          /\ call' = [call EXCEPT ![p] = Returned(@, "FILE_WRITE")]
          /\ UNCHANGED file
    /\ UNCHANGED <<now, ringVars, tokVars, codecVars, stale, calls>>

\* The process is killed inside webauth_keyring_write.
Crash(p) ==
    /\ call[p].pc \in {"w_mktemp", "w_encode", "w_write", "w_close", "w_rename"}
    /\ call' = [call EXCEPT ![p] = [@ EXCEPT !.pc = "crashed", !.fopen = FALSE]]
    /\ UNCHANGED <<now, ringVars, tokVars, codecVars, file, temp, stale, calls>>

\* One step of process p.
ProcStep(p) ==
    \/ /\ call[p].pc \in {"idle", "returned", "crashed"}
       /\ calls < MaxCalls
       /\ \E rd \in KeyringReadOutcomes(file) :
              \E create \in BOOLEAN, lifetime \in LifetimeInputs :
                  AutoUpdate(p, create, lifetime, rd)
    \/ WMktemp(p)
    \/ WEncode(p)
    \/ \E k \in PartialLens(call[p].buf) : WWritePart(p, k)
    \/ WWrite(p)
    \/ WClose(p)
    \/ WRename(p)
    \/ Crash(p)

\* SpecFile runs one process.
NextFile == Tick \/ ProcStep(1)

SpecFile == InitFile /\ [][NextFile]_vars

(***************************************************************************)
(* Properties of persistence, checked under SpecFile.  call[p] holds the   *)
(* call of process p: its arguments, the file when it began (fileBefore),  *)
(* the keyring it read (ringRead) and holds (ring), the clock at its       *)
(* decision (at) and what it returned.                                     *)
(***************************************************************************)
\* C7 as stated: when webauth_keyring_write fails at any step after it has
\* created its temporary file, the temporary no longer exists at its return.
C7_FailedWriteRemovesTemp ==
    \A p \in Procs :
        (call[p].pc = "returned" /\ call[p].made /\ call[p].wstatus # "NONE")
            => ~temp[p].exists

\* C8: at every step of webauth_keyring_write, a failed or interrupted one
\* included, the path holds what it held before the call or the complete
\* encoding of the keyring written, and the latter only once the write has
\* returned success, its rename done.
C8_PathHoldsOldOrComplete ==
    (call[1].pc # "idle") =>
        \/ file = call[1].fileBefore
        \/ /\ call[1].pc = "returned" /\ call[1].wstatus = "NONE"
           /\ ~call[1].ring.null
           /\ file = FileOf(KeyringEncode(call[1].ring.entries))

\* C8's case: the process killed while its temporary holds part of the
\* encoding, above a path that holds an older keyring.
C8_Witness ==
    /\ call[1].pc = "crashed"
    /\ temp[1].exists
    /\ Len(temp[1].data) > 0 /\ Len(temp[1].data) < Len(call[1].buf)
    /\ file.exists /\ file = call[1].fileBefore

\* Whether entry e is a new AES-128 key with both times t.
FreshEntry(e, t) ==
    /\ e.creation = t /\ e.valid_after = t
    /\ e.key.type = WA_KEY_AES /\ e.key.length = WA_AES_128
    /\ e.key \in {k.key : k \in RandomKeyOutcomes(WA_KEY_AES, WA_AES_128)} \ {NoKey}

\* Whether the call's keyring is the one made on CREATE, and the file, after
\* a successful write, decodes to it.
CreatedRing(c) ==
    /\ ~c.ring.null
    /\ Len(c.ring.entries) = 1
    /\ FreshEntry(c.ring.entries[1], c.at)
    /\ (c.status = "NONE") =>
           /\ file.exists
           /\ KeyringDecode(file.data) = [status |-> "NONE", ring |-> c.ring]

\* C9 as stated: auto_update on an absent file with create_if_missing
\* reports CREATE and returns a keyring of exactly one new AES-128 key with
\* creation and valid_after the current time, to which the file decodes
\* after a successful write.
C9_CreateAlwaysReturnsRing ==
    \A p \in Procs :
        (call[p].pc = "returned" /\ ~call[p].fileBefore.exists /\ call[p].create)
            => (call[p].updated = "CREATE" /\ CreatedRing(call[p]))

\* C9 as amended: auto_update on an absent file with create_if_missing
\* reports CREATE; if the key is generated, it returns a keyring of exactly
\* one new AES-128 key with creation and valid_after the current time, to
\* which the file decodes after a successful write; if generating the key
\* fails, it returns that error and no keyring.
C9_CreateReturnsRingIfKeyMade ==
    \A p \in Procs :
        (call[p].pc = "returned" /\ ~call[p].fileBefore.exists /\ call[p].create)
            => /\ call[p].updated = "CREATE"
               /\ (call[p].keyStatus = "NONE") => CreatedRing(call[p])
               /\ (call[p].keyStatus # "NONE") =>
                      /\ call[p].ring.null
                      /\ call[p].status = call[p].keyStatus
                      /\ ~file.exists

\* C9's case: a keyring created and written at a path that held no file.
C9_Witness ==
    /\ call[1].pc = "returned" /\ ~call[1].fileBefore.exists /\ call[1].create
    /\ call[1].updated = "CREATE" /\ call[1].status = "NONE"
    /\ file.exists
    /\ Len(call[1].ring.entries) = 1

\* Whether the call holds the keyring it read with one new key appended.
Appended(c) ==
    /\ ~c.ring.null
    /\ Len(c.ring.entries) = Len(c.ringRead.entries) + 1
    /\ SubSeq(c.ring.entries, 1, Len(c.ringRead.entries)) = c.ringRead.entries
    /\ FreshEntry(c.ring.entries[Len(c.ring.entries)], c.at)

\* Whether the call reported NONE and left the keyring and the file alone.
NothingChanged(c) ==
    /\ c.updated = "NONE" /\ c.update_status = "NONE"
    /\ c.ring = c.ringRead
    /\ file = c.fileBefore
    /\ ~c.made

LifetimeInRange(c) ==
    /\ c.lifetime > 0
    /\ c.lifetime <= TIME_MAX
    /\ \A i \in 1..Len(c.ringRead.entries) :
           c.ringRead.entries[i].valid_after + c.lifetime <= TIME_MAX

\* Whether no entry read has valid_after + lifetime > now; for a keyring
\* with entries, whether now minus the greatest valid_after is at least
\* lifetime.
RotationDue(c) ==
    \A i \in 1..Len(c.ringRead.entries) :
        c.at - c.ringRead.entries[i].valid_after >= c.lifetime

NULLP == <<>>
Ptr(bytes) == <<bytes>>

\* The strings the checks compare with, and two for the other members: a
\* plain one and one of the bytes the attribute stream has to escape.
STR_KRB5 == <<107, 114, 98, 53>>
STR_WEBKDC == <<119, 101, 98, 107, 100, 99>>
STR_REMUSER == <<114, 101, 109, 117, 115, 101, 114>>
STR_OTP == <<111, 116, 112>>
STR_ID == <<105, 100>>
STR_PROXY == <<112, 114, 111, 120, 121>>
STR_A == <<97>>
STR_ESC == <<CH_SEMI, CH_BSL, CH_EQ>>

\* enum webauth_token_type without WA_TOKEN_ANY, in the order of token_name.
TokenTypes ==
    <<"UNKNOWN", "APP", "CRED", "ERROR", "ID", "LOGIN", "PROXY", "REQUEST",
      "WEBKDC_FACTOR", "WEBKDC_PROXY", "WEBKDC_SERVICE">>

\* token_name: the name of each type in the token type attribute.
token_name ==
    <<
      <<117, 110, 107, 110, 111, 119, 110>>,
      <<97, 112, 112>>,
      <<99, 114, 101, 100>>,
      <<101, 114, 114, 111, 114>>,
      <<105, 100>>,
      <<108, 111, 103, 105, 110>>,
      <<112, 114, 111, 120, 121>>,
      <<114, 101, 113>>,
      <<119, 101, 98, 107, 100, 99, 45, 102, 97, 99, 116, 111, 114>>,
      <<119, 101, 98, 107, 100, 99, 45, 112, 114, 111, 120, 121>>,
      <<119, 101, 98, 107, 100, 99, 45, 115, 101, 114, 118, 105, 99, 101>>>>

\* The index of a type in token_name, 0 for a code beyond it.
TypeIndex(type) ==
    IF \E i \in 1..Len(TokenTypes) : TokenTypes[i] = type
        THEN CHOOSE i \in 1..Len(TokenTypes) : TokenTypes[i] = type
        ELSE 0

\* webauth_token_type_code: the type of a name, UNKNOWN for any other.
TokenTypeCode(name) ==
    IF \E i \in 1..Len(token_name) : token_name[i] = name
        THEN TokenTypes[CHOOSE i \in 1..Len(token_name) :
                            /\ token_name[i] = name
                            /\ \A j \in 1..(i - 1) : token_name[j] # name]
        ELSE "UNKNOWN"

\* webauth_token_type_string: the name of a type, NULL beyond the array
\* (WA_TOKEN_ANY and every other code).
TokenTypeString(type) ==
    IF TypeIndex(type) = 0 THEN NULLP ELSE Ptr(token_name[TypeIndex(type)])

\* One row of an encoding rule table: the attribute name, the member it is
\* bound to and its wire type.
Rule(name, field, wire) == [name |-> name, field |-> field, wire |-> wire]

\* The attribute that carries the token type.
NAME_T == <<116>>

\* The encoding rule table of each token type.
TokenRules(type) ==
    CASE type = "APP" ->
           <<
             Rule(<<115>>, "subject", "string"),
             Rule(<<115, 122>>, "authz_subject", "string"),
             Rule(<<108, 116>>, "last_used", "time"),
             Rule(<<107>>, "session_key", "data"),
             Rule(<<105, 97>>, "initial_factors", "string"),
             Rule(<<115, 97, 110>>, "session_factors", "string"),
             Rule(<<108, 111, 97>>, "loa", "uint"),
             Rule(<<101, 116>>, "expiration", "time")>>
      [] type = "CRED" ->
           <<
             Rule(<<115>>, "subject", "string"),
             Rule(<<99, 114, 116>>, "type", "string"),
             Rule(<<99, 114, 115>>, "service", "string"),
             Rule(<<99, 114, 100>>, "data", "data"),
             Rule(<<101, 116>>, "expiration", "time")>>
      [] type = "ERROR" ->
           <<
             Rule(<<101, 99>>, "code", "uint"),
             Rule(<<101, 109>>, "message", "string")>>
      [] type = "ID" ->
           <<
             Rule(<<115>>, "subject", "string"),
             Rule(<<115, 97>>, "auth", "string"),
             Rule(<<115, 97, 100>>, "auth_data", "data"),
             Rule(<<101, 116>>, "expiration", "time")>>
      [] type = "LOGIN" ->
           <<
             Rule(<<117>>, "username", "string"),
             Rule(<<112>>, "password", "string"),
             Rule(<<111, 116, 112>>, "otp", "string"),
             Rule(<<111, 116, 116>>, "otp_type", "string")>>
      [] type = "PROXY" ->
           <<
             Rule(<<115>>, "subject", "string"),
             Rule(<<112, 116>>, "type", "string"),
             Rule(<<119, 116>>, "webkdc_proxy", "data"),
             Rule(<<101, 116>>, "expiration", "time")>>
      [] type = "REQUEST" ->
           <<
             Rule(<<114, 116, 116>>, "type", "string"),
             Rule(<<115, 97>>, "auth", "string"),
             Rule(<<112, 116>>, "proxy_type", "string"),
             Rule(<<97, 115>>, "state", "data"),
             Rule(<<114, 117>>, "return_url", "string"),
             Rule(<<114, 111>>, "options", "string"),
             Rule(<<105, 97>>, "initial_factors", "string"),
             Rule(<<115, 97, 110>>, "session_factors", "string"),
             Rule(<<99, 109, 100>>, "command", "string")>>
      [] type = "WEBKDC_FACTOR" ->
           <<
             Rule(<<115>>, "subject", "string"),
             Rule(<<105, 97>>, "initial_factors", "string"),
             Rule(<<115, 97, 110>>, "session_factors", "string"),
             Rule(<<101, 116>>, "expiration", "time")>>
      [] type = "WEBKDC_PROXY" ->
           <<
             Rule(<<115>>, "subject", "string"),
             Rule(<<112, 116>>, "proxy_type", "string"),
             Rule(<<112, 115>>, "proxy_subject", "string"),
             Rule(<<101, 116>>, "expiration", "time")>>
      [] type = "WEBKDC_SERVICE" ->
           <<
             Rule(<<115>>, "subject", "string"),
             Rule(<<107>>, "session_key", "data"),
             Rule(<<101, 116>>, "expiration", "time")>>
      [] OTHER -> <<>>

\* wai_token_encoding: the rules of a token type, INVALID for UNKNOWN, ANY
\* and every code that is no type.
WaiTokenEncoding(type) ==
    IF type \in {"APP", "CRED", "ERROR", "ID", "LOGIN", "PROXY", "REQUEST",
                 "WEBKDC_FACTOR", "WEBKDC_PROXY", "WEBKDC_SERVICE"}
        THEN [status |-> "NONE", rules |-> TokenRules(type)]
        ELSE [status |-> "INVALID", rules |-> <<>>]

\* One member on the wire under its rule: a NULL pointer and a zero number
\* are left out.
EncodeField(rule, token) ==
    LET v == token.token[rule.field]
    IN IF rule.wire \in {"string", "data"}
           THEN IF v = NULLP THEN <<>> ELSE EncodeAttr(rule.name, v[1])
           ELSE IF v = 0 THEN <<>> ELSE EncodeAttr(rule.name, ToDecimal(v))

RECURSIVE EncodeFields(_, _, _)
EncodeFields(rules, token, i) ==
    IF i > Len(rules) THEN <<>>
    ELSE EncodeField(rules[i], token) \o EncodeFields(rules, token, i + 1)

\* wai_encode_token: the type attribute, then the members by the rules of
\* the token's type.
WaiEncodeToken(token) ==
    LET e == WaiTokenEncoding(token.type)
    IN IF e.status # "NONE" THEN [status |-> e.status, attrs |-> <<>>]
       ELSE [status |-> "NONE",
             attrs |-> EncodeAttr(NAME_T, token_name[TypeIndex(token.type)])
                       \o EncodeFields(e.rules, token, 1)]

\* Whether the attributes give the member of the rule a well-typed value.
FieldWellTyped(rule, attrs) ==
    \/ rule.wire \in {"string", "data"}
    \/ ~HasAttr(attrs, rule.name)
    \/ IsDecimal(AttrValue(attrs, rule.name))

\* The member of the rule as the attributes give it: NULL or zero when the
\* attribute is absent.
DecodeField(rule, attrs) ==
    IF rule.wire \in {"string", "data"}
        THEN IF HasAttr(attrs, rule.name)
                 THEN Ptr(AttrValue(attrs, rule.name)) ELSE NULLP
        ELSE IF HasAttr(attrs, rule.name)
                 THEN FromDecimal(AttrValue(attrs, rule.name)) ELSE 0

\* wai_decode_token: the type from the type attribute, then every member
\* of that type's rules; attributes the rules do not name are ignored.
WaiDecodeToken(bytes) ==
    LET p == ParseStream(bytes)
        corrupt == [status |-> "CORRUPT", token |-> NoToken]
    IN IF ~p.ok \/ ~HasAttr(p.attrs, NAME_T) THEN corrupt
       ELSE LET type == TokenTypeCode(AttrValue(p.attrs, NAME_T))
                e == WaiTokenEncoding(type)
                rule == [f \in {e.rules[i].field : i \in 1..Len(e.rules)} |->
                            e.rules[CHOOSE i \in 1..Len(e.rules) :
                                        e.rules[i].field = f]]
            IN IF e.status # "NONE"
                   THEN [status |-> e.status, token |-> NoToken]
               ELSE IF \E i \in 1..Len(e.rules) :
                           ~FieldWellTyped(e.rules[i], p.attrs)
                   THEN corrupt
               ELSE [status |-> "NONE",
                     token |-> [type |-> type,
                                token |-> [f \in DOMAIN rule |->
                                              DecodeField(rule[f], p.attrs)]]]

\* webauth_token_encrypt: the attributes sealed under the key that
\* best_key gives for encryption with hint 0, unless there is none or the
\* random source fails to give a nonce.  hint is the fingerprint of the key;
\* key and plain stand for the ciphertext and its integrity tag.
TokenEncryptOutcomes(attrs, entries, t) ==
    LET b == BestKey(entries, "ENCRYPT", 0, t)
    IN IF b.status # "NONE"
           THEN {[status |-> "BAD_KEY", token |-> NoWire]}
           ELSE {[status |-> "RAND_FAILURE", token |-> NoWire],
                 [status |-> "NONE",
                  token |-> [null |-> FALSE,
                             hint |-> SubSeq(b.output.data, 1, 4),
                             key |-> b.output, plain |-> attrs]]}

\* webauth_token_decrypt: every key of the keyring is tried, the one the
\* hint names first; the token authenticates under the key that sealed it
\* and under no other.
TokenDecrypt(token, r) ==
    IF r.null THEN [status |-> "BAD_KEY", attrs |-> <<>>]
    ELSE IF token.null THEN [status |-> "CORRUPT", attrs |-> <<>>]
    ELSE IF \E i \in 1..Len(r.entries) : r.entries[i].key = token.key
        THEN [status |-> "NONE", attrs |-> token.plain]
    ELSE [status |-> "BAD_HMAC", attrs |-> <<>>]

\* The first status of two that is an error: the return of a CHECK macro
\* ends the function.
Then(a, b) == IF a # "NONE" THEN a ELSE b

\* CHECK_DATA, CHECK_NUM, CHECK_STR, CHECK_NULL, CHECK_ZERO.
CHECK_DATA(v) == IF v = NULLP \/ Len(v[1]) = 0 THEN "CORRUPT" ELSE "NONE"
CHECK_NUM(n) == IF n = 0 THEN "CORRUPT" ELSE "NONE"
CHECK_STR(v) == IF v = NULLP THEN "CORRUPT" ELSE "NONE"
CHECK_NULL(v) == IF v # NULLP THEN "CORRUPT" ELSE "NONE"
CHECK_ZERO(n) == IF n # 0 THEN "CORRUPT" ELSE "NONE"

\* A check_expiration that also rejects the second of expiry.
check_expiration_OrEqual(expiration, t) ==
    IF expiration <= t THEN "TOKEN_EXPIRED" ELSE "NONE"

\* check_expiration at time t.
check_expiration(expiration, t) ==
    IF expiration < t THEN "TOKEN_EXPIRED" ELSE "NONE"

\* A CHECK_EXP that looks at the clock in both modes.
CHECK_EXP_BothModes(expiration, mode, t) ==
    Then(CHECK_NUM(expiration), check_expiration(expiration, t))

\* CHECK_EXP: the expiration is set and, when decoding, not in the past.
CHECK_EXP(expiration, mode, t) ==
    Then(CHECK_NUM(expiration),
         IF mode = "DECODE" THEN check_expiration(expiration, t) ELSE "NONE")

check_cred_type(cred_type) == IF cred_type # STR_KRB5 THEN "CORRUPT" ELSE "NONE"
check_proxy_type(proxy_type) == IF proxy_type # STR_KRB5 THEN "CORRUPT" ELSE "NONE"
check_subject_auth(auth) ==
    IF auth # STR_KRB5 /\ auth # STR_WEBKDC THEN "CORRUPT" ELSE "NONE"

check_app(app, mode, t) ==
    Then(CHECK_EXP(app.expiration, mode, t),
         IF app.session_key = NULLP THEN CHECK_STR(app.subject)
         ELSE Then(CHECK_NULL(app.subject),
              Then(CHECK_NULL(app.authz_subject),
              Then(CHECK_ZERO(app.last_used),
              Then(CHECK_NULL(app.initial_factors),
              Then(CHECK_NULL(app.session_factors),
                   CHECK_ZERO(app.loa)))))))

check_cred(cred, mode, t) ==
    Then(CHECK_STR(cred.subject),
    Then(CHECK_STR(cred.type),
    Then(CHECK_STR(cred.service),
    Then(CHECK_DATA(cred.data),
    Then(CHECK_EXP(cred.expiration, mode, t),
         check_cred_type(cred.type[1]))))))

\* A check_error that looks at the code only when encoding.
check_error_CodeOnEncode(error, mode, t) ==
    IF mode = "ENCODE"
        THEN Then(CHECK_NUM(error.code), CHECK_STR(error.message))
        ELSE CHECK_STR(error.message)

check_error(error, mode, t) ==
    Then(CHECK_NUM(error.code), CHECK_STR(error.message))

check_id(id, mode, t) ==
    Then(CHECK_STR(id.auth),
    Then(CHECK_EXP(id.expiration, mode, t),
    Then(IF id.auth[1] = STR_WEBKDC THEN CHECK_STR(id.subject) ELSE "NONE",
    Then(IF id.auth[1] = STR_KRB5 THEN CHECK_DATA(id.auth_data) ELSE "NONE",
         check_subject_auth(id.auth[1])))))

\* A check_login that lets a token carry both a password and an otp.
check_login_BothAllowed(login, mode, t) ==
    Then(CHECK_STR(login.username),
         IF login.password = NULLP /\ login.otp = NULLP THEN "CORRUPT"
         ELSE IF login.password # NULLP THEN CHECK_NULL(login.otp_type)
         ELSE "NONE")

check_login(login, mode, t) ==
    Then(CHECK_STR(login.username),
         IF login.password = NULLP /\ login.otp = NULLP THEN "CORRUPT"
         ELSE IF login.password # NULLP /\ login.otp # NULLP THEN "CORRUPT"
         ELSE IF login.password # NULLP THEN CHECK_NULL(login.otp_type)
         ELSE "NONE")

check_proxy(proxy, mode, t) ==
    Then(CHECK_STR(proxy.subject),
    Then(CHECK_STR(proxy.type),
    Then(CHECK_DATA(proxy.webkdc_proxy),
    Then(CHECK_EXP(proxy.expiration, mode, t),
         check_proxy_type(proxy.type[1])))))

\* A check_request that, with a command, does not look at return_url.
check_request_UrlWithCommand(request, mode, t) ==
    IF request.command # NULLP
        THEN Then(CHECK_NULL(request.type),
             Then(CHECK_NULL(request.auth),
             Then(CHECK_NULL(request.proxy_type),
             Then(CHECK_NULL(request.state),
             Then(CHECK_NULL(request.options),
             Then(CHECK_NULL(request.initial_factors),
                  CHECK_NULL(request.session_factors)))))))
        ELSE Then(CHECK_STR(request.type),
             Then(CHECK_STR(request.return_url),
                  IF request.type[1] = STR_ID
                      THEN Then(CHECK_STR(request.auth),
                                check_subject_auth(request.auth[1]))
                  ELSE IF request.type[1] = STR_PROXY
                      THEN Then(CHECK_STR(request.proxy_type),
                                check_proxy_type(request.proxy_type[1]))
                  ELSE "CORRUPT"))

check_request(request, mode, t) ==
    IF request.command # NULLP
        THEN Then(CHECK_NULL(request.type),
             Then(CHECK_NULL(request.auth),
             Then(CHECK_NULL(request.proxy_type),
             Then(CHECK_NULL(request.state),
             Then(CHECK_NULL(request.return_url),
             Then(CHECK_NULL(request.options),
             Then(CHECK_NULL(request.initial_factors),
                  CHECK_NULL(request.session_factors))))))))
        ELSE Then(CHECK_STR(request.type),
             Then(CHECK_STR(request.return_url),
                  IF request.type[1] = STR_ID
                      THEN Then(CHECK_STR(request.auth),
                                check_subject_auth(request.auth[1]))
                  ELSE IF request.type[1] = STR_PROXY
                      THEN Then(CHECK_STR(request.proxy_type),
                                check_proxy_type(request.proxy_type[1]))
                  ELSE "CORRUPT"))

check_webkdc_factor(webkdc_factor, mode, t) ==
    Then(CHECK_STR(webkdc_factor.subject),
    Then(CHECK_EXP(webkdc_factor.expiration, mode, t),
         IF webkdc_factor.initial_factors = NULLP
            /\ webkdc_factor.session_factors = NULLP
             THEN "CORRUPT" ELSE "NONE"))

check_webkdc_proxy(webkdc_proxy, mode, t) ==
    Then(CHECK_STR(webkdc_proxy.subject),
    Then(CHECK_STR(webkdc_proxy.proxy_type),
    Then(CHECK_STR(webkdc_proxy.proxy_subject),
    Then(CHECK_EXP(webkdc_proxy.expiration, mode, t),
         IF webkdc_proxy.proxy_type[1] \notin {STR_KRB5, STR_REMUSER, STR_OTP}
             THEN "CORRUPT" ELSE "NONE"))))

check_webkdc_service(webkdc_service, mode, t) ==
    Then(CHECK_STR(webkdc_service.subject),
    Then(CHECK_DATA(webkdc_service.session_key),
         CHECK_EXP(webkdc_service.expiration, mode, t)))

\* check_token: the check of the token's type, INVALID for a type that has
\* none.
check_token(token, mode, t) ==
    CASE token.type = "APP" -> check_app(token.token, mode, t)
      [] token.type = "CRED" -> check_cred(token.token, mode, t)
      [] token.type = "ERROR" -> check_error(token.token, mode, t)
      [] token.type = "ID" -> check_id(token.token, mode, t)
      [] token.type = "LOGIN" -> check_login(token.token, mode, t)
      [] token.type = "PROXY" -> check_proxy(token.token, mode, t)
      [] token.type = "REQUEST" -> check_request(token.token, mode, t)
      [] token.type = "WEBKDC_FACTOR" -> check_webkdc_factor(token.token, mode, t)
      [] token.type = "WEBKDC_PROXY" -> check_webkdc_proxy(token.token, mode, t)
      [] token.type = "WEBKDC_SERVICE" -> check_webkdc_service(token.token, mode, t)
      [] OTHER -> "INVALID"

\* A decode that goes on after a failed decryption and reports it last.
TokenDecodeRaw_DecryptStatusLast(type, token, r, t) ==
    LET fail(s) == [status |-> s, decoded |-> NoToken]
        d == TokenDecrypt(token, r)
        w == WaiDecodeToken(IF token.null THEN <<>> ELSE token.plain)
    IN IF TokenTypeString(type) = NULLP /\ type # "ANY" THEN fail("INVALID")
       ELSE IF w.status # "NONE" THEN fail(w.status)
       ELSE IF type # "ANY" /\ type # w.token.type THEN fail("CORRUPT")
       ELSE IF check_token(w.token, "DECODE", t) # "NONE"
           THEN fail(check_token(w.token, "DECODE", t))
       ELSE IF d.status # "NONE" THEN fail(d.status)
       ELSE [status |-> "NONE", decoded |-> w.token]

\* A decode that validates the record before it compares the types.
TokenDecodeRaw_CheckFirst(type, token, r, t) ==
    LET fail(s) == [status |-> s, decoded |-> NoToken]
        d == TokenDecrypt(token, r)
        w == WaiDecodeToken(d.attrs)
    IN IF TokenTypeString(type) = NULLP /\ type # "ANY" THEN fail("INVALID")
       ELSE IF d.status # "NONE" THEN fail(d.status)
       ELSE IF w.status # "NONE" THEN fail(w.status)
       ELSE IF check_token(w.token, "DECODE", t) # "NONE"
           THEN fail(check_token(w.token, "DECODE", t))
       ELSE IF type # "ANY" /\ type # w.token.type THEN fail("CORRUPT")
       ELSE [status |-> "NONE", decoded |-> w.token]

\* webauth_token_decode_raw at time t: the decoded token, NULL on error.
TokenDecodeRaw(type, token, r, t) ==
    LET fail(s) == [status |-> s, decoded |-> NoToken]
        d == TokenDecrypt(token, r)
        w == WaiDecodeToken(d.attrs)
    IN IF TokenTypeString(type) = NULLP /\ type # "ANY" THEN fail("INVALID")
       ELSE IF d.status # "NONE" THEN fail(d.status)
       ELSE IF w.status # "NONE" THEN fail(w.status)
       ELSE IF type # "ANY" /\ type # w.token.type THEN fail("CORRUPT")
       ELSE IF check_token(w.token, "DECODE", t) # "NONE"
           THEN fail(check_token(w.token, "DECODE", t))
       ELSE [status |-> "NONE", decoded |-> w.token]

\* webauth_token_encode_raw at time t: its outcomes, one for each outcome of
\* the encryption; token is what it stores in *token, NoWire when it stores
\* nothing.
TokenEncodeRawOutcomes(data, r, t) ==
    LET fail(s) == {[status |-> s, token |-> NoWire]}
        a == WaiEncodeToken(data)
    IN IF r.null THEN fail("BAD_KEY")
       ELSE IF check_token(data, "ENCODE", t) # "NONE"
           THEN fail(check_token(data, "ENCODE", t))
       ELSE IF a.status # "NONE" THEN fail(a.status)
       ELSE TokenEncryptOutcomes(a.attrs, r.entries, t)

(***************************************************************************)
(* SpecToken: a token encoded and decoded with a keyring.  The holder      *)
(* encodes one token under its keyring and then decodes what it encoded,   *)
(* as often as it likes, with that keyring, with it less its first entry,  *)
(* or with none.                                                           *)
(***************************************************************************)
\* The expiration times of the tokens: unset, and every time of the clock.
Exps == 0..MaxTime

\* A struct webauth_token: the type and the struct of that type.
Token(type, data) == [type |-> type, token |-> data]

AppTokens ==
    {Token("APP",
           [expiration |-> e, session_key |-> k, subject |-> s,
            authz_subject |-> NULLP, last_used |-> l,
            initial_factors |-> NULLP, session_factors |-> f, loa |-> 0]) :
        e \in Exps, k \in {NULLP, Ptr(STR_ESC)}, s \in {NULLP, Ptr(STR_A)},
        l \in {0, 1}, f \in {NULLP, Ptr(STR_A)}}

CredTokens ==
    {Token("CRED",
           [subject |-> s, type |-> y, service |-> Ptr(STR_A), data |-> d,
            expiration |-> e]) :
        s \in {NULLP, Ptr(STR_A)}, y \in {Ptr(STR_KRB5), Ptr(STR_A)},
        d \in {NULLP, Ptr(<<>>), Ptr(STR_ESC)}, e \in Exps}

ErrorTokens ==
    {Token("ERROR", [code |-> c, message |-> m]) :
        c \in {0, 1}, m \in {NULLP, Ptr(<<>>), Ptr(STR_ESC)}}

IdTokens ==
    {Token("ID",
           [auth |-> a, expiration |-> e, subject |-> s, auth_data |-> d]) :
        a \in {NULLP, Ptr(STR_KRB5), Ptr(STR_WEBKDC), Ptr(STR_A)},
        e \in Exps, s \in {NULLP, Ptr(STR_A)}, d \in {NULLP, Ptr(STR_ESC)}}

LoginTokens ==
    {Token("LOGIN",
           [username |-> u, password |-> p, otp |-> o, otp_type |-> y]) :
        u \in {NULLP, Ptr(STR_A)}, p \in {NULLP, Ptr(STR_ESC)},
        o \in {NULLP, Ptr(STR_A)}, y \in {NULLP, Ptr(STR_A)}}

ProxyTokens ==
    {Token("PROXY",
           [subject |-> Ptr(STR_A), type |-> y, webkdc_proxy |-> d,
            expiration |-> e]) :
        y \in {NULLP, Ptr(STR_KRB5), Ptr(STR_A)},
        d \in {NULLP, Ptr(<<>>), Ptr(STR_ESC)}, e \in Exps}

\* A request token; x names the one further member that is set, if any.
RequestToken(c, y, a, p, u, x) ==
    Token("REQUEST",
          [command |-> c, type |-> y, auth |-> a, proxy_type |-> p,
           state |-> IF x = 1 THEN Ptr(STR_ESC) ELSE NULLP,
           return_url |-> u,
           options |-> IF x = 2 THEN Ptr(STR_A) ELSE NULLP,
           initial_factors |-> IF x = 3 THEN Ptr(STR_A) ELSE NULLP,
           session_factors |-> IF x = 4 THEN Ptr(STR_A) ELSE NULLP])

RequestTokens ==
    {RequestToken(c, y, a, p, u, 0) :
        c \in {NULLP, Ptr(STR_A)},
        y \in {NULLP, Ptr(STR_ID), Ptr(STR_PROXY), Ptr(STR_A)},
        a \in {NULLP, Ptr(STR_WEBKDC), Ptr(STR_A)},
        p \in {NULLP, Ptr(STR_KRB5)},
        u \in {NULLP, Ptr(STR_ESC)}}
    \cup {RequestToken(c, y, y, NULLP, y, x) :
            c \in {NULLP, Ptr(STR_A)}, y \in {NULLP, Ptr(STR_ID)},
            x \in 1..4}

WebkdcFactorTokens ==
    {Token("WEBKDC_FACTOR",
           [subject |-> s, expiration |-> e, initial_factors |-> i,
            session_factors |-> f]) :
        s \in {NULLP, Ptr(STR_A)}, e \in Exps, i \in {NULLP, Ptr(STR_A)},
        f \in {NULLP, Ptr(STR_A)}}

WebkdcProxyTokens ==
    {Token("WEBKDC_PROXY",
           [subject |-> Ptr(STR_A), proxy_type |-> p, proxy_subject |-> s,
            expiration |-> e]) :
        p \in {NULLP, Ptr(STR_KRB5), Ptr(STR_REMUSER), Ptr(STR_OTP), Ptr(STR_A)},
        s \in {NULLP, Ptr(STR_A)}, e \in Exps}

WebkdcServiceTokens ==
    {Token("WEBKDC_SERVICE",
           [subject |-> s, session_key |-> k, expiration |-> e]) :
        s \in {NULLP, Ptr(STR_A)}, k \in {NULLP, Ptr(<<>>), Ptr(STR_ESC)},
        e \in Exps}

\* The tokens handed to encode: of every type, well-formed and not, and two
\* of no type.
TokenInputs ==
    AppTokens \cup CredTokens \cup ErrorTokens \cup IdTokens
    \cup LoginTokens \cup ProxyTokens \cup RequestTokens
    \cup WebkdcFactorTokens \cup WebkdcProxyTokens \cup WebkdcServiceTokens
    \cup {Token("UNKNOWN", <<>>), Token("ANY", <<>>)}

\* The keyrings of the holder: one entry or two of different keys, with
\* valid_after in the past, now and in the future, or none.
TokenEntry(k, v) ==
    [creation |-> v, valid_after |-> v,
     key |-> KeyCreate(WA_KEY_AES, WA_AES_128, KeyMaterial(k)).key]

TokenRings ==
    {<<>>}
    \cup {<<TokenEntry(1, v)>> : v \in 0..MaxTime}
    \cup {<<TokenEntry(1, v), TokenEntry(2, w)>> : v \in 0..MaxTime, w \in 1..2}

\* The expected types passed to decode: the type encoded, any, another
\* type, and a code that is no type.
DecodeTypes(type) ==
    {type, "ANY", IF type = "ERROR" THEN "APP" ELSE "ERROR", "NO_TYPE"}

\* The keyrings passed to decode: the holder's, the holder's after the
\* removal of its first entry, and NULL.
DecodeRings(entries) ==
    {RingOf(entries), RingOf(KeyringRemove(entries, 0).entries), NoRing}

InitToken ==
    /\ now = 1
    /\ ring \in TokenRings
    /\ res = NoRes
    /\ InitFileIdle

\* webauth_token_encode_raw of data with the holder's keyring or NULL.
TokenEncode(data, r) ==
    /\ tok.pc = "idle"
    /\ \E o \in TokenEncodeRawOutcomes(data, r, now) :
           tok' = [NoTok EXCEPT !.pc = "encoded", !.data = data, !.ring = r,
                                !.encAt = now, !.encStatus = o.status,
                                !.token = o.token]
    /\ UNCHANGED <<now, ringVars, fileVars, codecVars>>

\* webauth_token_decode_raw of the token last encoded.
TokenDecode(type, r) ==
    /\ tok.pc \in {"encoded", "decoded"}
    /\ ~tok.token.null
    /\ LET o == TokenDecodeRaw(type, tok.token, r, now)
       IN tok' = [tok EXCEPT !.pc = "decoded", !.type = type, !.decRing = r,
                             !.decAt = now, !.decStatus = o.status,
                             !.decoded = o.decoded]
    /\ UNCHANGED <<now, ringVars, fileVars, codecVars>>

NextToken ==
    \/ Tick
    \/ \E data \in TokenInputs, r \in {RingOf(ring), NoRing} :
           TokenEncode(data, r)
    \/ \E type \in DecodeTypes(tok.data.type), r \in DecodeRings(ring) :
           TokenDecode(type, r)

SpecToken == InitToken /\ [][NextToken]_vars

(***************************************************************************)
(* Properties of tokens, checked under SpecToken.  tok holds the last      *)
(* encode (its record data, its keyring, its time encAt, its status and    *)
(* the token made) and the last decode of that token (its expected type,   *)
(* its keyring, its time decAt, its status and the record decoded).        *)
(***************************************************************************)
\* Whether the last encode was of a record that passes encode-mode
\* validation, with a keyring that is not empty.
ValidWithRing ==
    /\ tok.pc \in {"encoded", "decoded"}
    /\ ~tok.ring.null /\ Len(tok.ring.entries) > 0
    /\ check_token(tok.data, "ENCODE", tok.encAt) = "NONE"

\* Whether the last decode was with the keyring of the encode and expected
\* the type of the record or any.
DecodedWithSame ==
    /\ tok.pc = "decoded"
    /\ tok.decRing = tok.ring
    /\ tok.type \in {tok.data.type, "ANY"}

\* C1 as stated: for every record that passes encode-mode validation and
\* every non-empty keyring, the encoding succeeds (a failure of the random
\* source set aside), and decoding the result with the record's type (or
\* any) and the same keyring succeeds and yields a record equal to the one
\* encoded.
C1_EveryValidRecordRoundTrips ==
    /\ (ValidWithRing /\ tok.encStatus # "RAND_FAILURE") =>
           tok.encStatus = "NONE"
    /\ (ValidWithRing /\ DecodedWithSame) =>
           (tok.decStatus = "NONE" /\ tok.decoded = tok.data)

\* Whether the record carries no expiration or one not before time t.
Unexpired(token, t) ==
    \/ token.type \in {"ERROR", "LOGIN", "REQUEST"}
    \/ token.token.expiration >= t

\* C1 as amended: for every record that passes encode-mode validation and
\* every keyring with an entry whose valid_after is not in the future, the
\* encoding succeeds unless the random source fails; decoding the result
\* with the record's type (or any) and the same keyring, at a time not
\* after the record's expiration if it has one, succeeds and yields a
\* record equal to the one encoded.
C1_UsableKeyUnexpiredRoundTrips ==
    /\ (ValidWithRing /\ Usable(tok.ring.entries, tok.encAt) # {}
           /\ tok.encStatus # "RAND_FAILURE") =>
           (tok.encStatus = "NONE" /\ ~tok.token.null)
    /\ (ValidWithRing /\ DecodedWithSame
           /\ Unexpired(tok.data, tok.decAt)) =>
           (tok.decStatus = "NONE" /\ tok.decoded = tok.data)

\* C1's case: a cred token whose data holds bytes the stream escapes,
\* sealed under the second, newer key of a two-entry keyring and decoded
\* later with that keyring.
C1_Witness ==
    /\ ValidWithRing /\ DecodedWithSame
    /\ tok.data.type = "CRED" /\ tok.data.token.data = Ptr(STR_ESC)
    /\ Len(tok.ring.entries) = 2
    /\ tok.token.key = tok.ring.entries[2].key
    /\ tok.decAt > tok.encAt
    /\ tok.decStatus = "NONE" /\ tok.decoded = tok.data

(***************************************************************************)
(* Further properties of persistence, checked under SpecFile.              *)
(***************************************************************************)
\* C11: when auto_update rotates and the rewrite of the file fails, its own
\* status is success, the error of the write is in update_status alone, and
\* the keyring returned holds every entry read and the new key after them.
C11_FailedRewriteKeepsRing ==
    \A p \in Procs :
        LET c == call[p]
        IN (c.pc = "returned" /\ c.via = "check_ring" /\ c.wstatus # "NONE") =>
               /\ c.status = "NONE"
               /\ c.update_status = c.wstatus
               /\ c.updated = "UPDATE"
               /\ Appended(c)
               /\ file = c.fileBefore

\* C11's case: a keyring of two entries rotated, the write of its temporary
\* failed.
C11_Witness ==
    /\ call[1].pc = "returned" /\ call[1].via = "check_ring"
    /\ call[1].wstatus = "FILE_WRITE"
    /\ Len(call[1].ringRead.entries) = 2
    /\ Len(call[1].ring.entries) = 3
    /\ call[1].status = "NONE"

(***************************************************************************)
(* SpecRepeat: auto_update called twice on the same path with the same     *)
(* lifetime, by process 1 and, once that call has returned, by process 2.  *)
(***************************************************************************)
\* One step of the webauth_keyring_write of process p, or its death there.
WriteStep(p) ==
    \/ WMktemp(p)
    \/ WEncode(p)
    \/ \E k \in PartialLens(call[p].buf) : WWritePart(p, k)
    \/ WWrite(p)
    \/ WClose(p)
    \/ WRename(p)
    \/ Crash(p)

\* The first call, with any arguments.
FirstCall ==
    /\ call[1].pc = "idle"
    /\ \E rd \in KeyringReadOutcomes(file) :
           \E create \in BOOLEAN, lifetime \in LifetimeInputs :
               AutoUpdate(1, create, lifetime, rd)

\* The second call, after the return of the first and with its lifetime.
SecondCall ==
    /\ call[1].pc = "returned"
    /\ call[2].pc = "idle"
    /\ \E rd \in KeyringReadOutcomes(file) :
           \E create \in BOOLEAN :
               AutoUpdate(2, create, call[1].lifetime, rd)

NextRepeat ==
    \/ Tick
    \/ FirstCall
    \/ WriteStep(1)
    \/ SecondCall
    \/ WriteStep(2)

SpecRepeat == InitFile /\ [][NextRepeat]_vars

\* Whether the call of process p replaced the file at the path.
Wrote(p) == call[p].made /\ call[p].wstatus = "NONE"

\* C12 as stated: of two auto_update calls on one path with one lifetime,
\* the second starting less than lifetime seconds after the first, at most
\* one replaces the file: if the first created or rotated the keyring and
\* its write succeeded, the second reports NONE and writes nothing.
C12_SecondCallInWindowWritesNothing ==
    (/\ call[1].pc = "returned" /\ call[2].pc = "returned"
     /\ call[2].at - call[1].at < call[1].lifetime) =>
        /\ ~(Wrote(1) /\ Wrote(2))
        /\ (call[1].updated \in {"CREATE", "UPDATE"} /\ Wrote(1)) =>
               /\ call[2].updated = "NONE"
               /\ ~call[2].made
               /\ file = call[2].fileBefore

(***************************************************************************)
(* Properties of reading a keyring, checked under SpecFile: readStatus and *)
(* ringRead are the status and the keyring of the webauth_keyring_read     *)
(* that begins auto_update, fileBefore the file it read.                   *)
(***************************************************************************)
\* C13 as stated: a keyring that webauth_keyring_read returns with success
\* has at least one entry; the bytes of version 1 and entry count 0 are not
\* read with success.
C13_ReadKeyringNotEmpty ==
    \A p \in Procs :
        (call[p].pc # "idle" /\ call[p].readStatus = "NONE") =>
            /\ ~call[p].ringRead.null
            /\ Len(call[p].ringRead.entries) >= 1
            /\ call[p].fileBefore.data # KeyringEncode(<<>>)

(***************************************************************************)
(* SpecDecode: webauth_keyring_decode applied to the bytes of a struct     *)
(* wai_keyring of any version, with entries whose keys can and cannot be   *)
(* made, whole or cut short.                                               *)
(***************************************************************************)
\* The versions in the bytes: KEYRING_VERSION and the ones around it.
Versions == 0..(MaxTime + 1)

\* The entries in the bytes: a key that can be made (with valid_after unset
\* or set), a key of an unknown type, and a key of a length that is no AES
\* key length.
WaiEntry(type, len, v) ==
    [creation |-> v, valid_after |-> v, key_type |-> type,
     key |-> SubSeq(KeyMaterial(1), 1, len), key_len |-> len]

WaiEntries ==
    {WaiEntry(WA_KEY_AES, WA_AES_128, 0), WaiEntry(WA_KEY_AES, WA_AES_128, 1),
     WaiEntry(WA_KEY_AES + 1, WA_AES_128, 1), WaiEntry(WA_KEY_AES, 5, 1)}

WaiKeyrings ==
    {[version |-> v, entry_count |-> Len(e), entry |-> e] :
        v \in Versions,
        e \in {<<>>} \cup {<<a>> : a \in WaiEntries}
               \cup {<<a, b>> : a \in WaiEntries, b \in WaiEntries}}

InitDecode ==
    /\ now = 1
    /\ ring = KeyringNew
    /\ res = NoRes
    /\ tok = NoTok
    /\ file = NoFile
    /\ temp = [p \in Procs |-> NoFile]
    /\ stale = 0
    /\ call = [p \in Procs |-> IdleCall]
    /\ calls = 0
    /\ \E d \in WaiKeyrings :
           dec = [NoDec EXCEPT !.pc = "input", !.data = d,
                               !.bytes = WaiKeyringEncode(d)]

\* The bytes lose their end.
Truncate(k) ==
    /\ dec.pc = "input"
    /\ dec.bytes = WaiKeyringEncode(dec.data)
    /\ dec' = [dec EXCEPT !.bytes = SubSeq(dec.bytes, 1, k)]
    /\ UNCHANGED <<now, ringVars, fileVars, tokVars>>

\* webauth_keyring_decode of the bytes.
DecodeCall ==
    /\ dec.pc = "input"
    /\ LET r == KeyringDecode(dec.bytes)
       IN dec' = [dec EXCEPT !.pc = "decoded", !.status = r.status,
                             !.ring = r.ring]
    /\ UNCHANGED <<now, ringVars, fileVars, tokVars>>

NextDecode ==
    \/ \E k \in PartialLens(dec.bytes) : Truncate(k)
    \/ DecodeCall

SpecDecode == InitDecode /\ [][NextDecode]_vars

\* Whether the bytes decoded are whole: the encoding of the struct.
Whole == dec.bytes = WaiKeyringEncode(dec.data)

\* The entries of the struct whose key cannot be made.
BadEntries ==
    {i \in 1..Len(dec.data.entry) :
        \/ dec.data.entry[i].key_type # WA_KEY_AES
        \/ dec.data.entry[i].key_len \notin {WA_AES_128, WA_AES_192, WA_AES_256}}

\* Whether the keyring decoded has the entries of the struct, in order.
DecodedAll ==
    /\ dec.status = "NONE" /\ ~dec.ring.null
    /\ Len(dec.ring.entries) = dec.data.entry_count
    /\ \A i \in 1..Len(dec.ring.entries) :
           /\ dec.ring.entries[i].creation = dec.data.entry[i].creation
           /\ dec.ring.entries[i].valid_after = dec.data.entry[i].valid_after
           /\ dec.ring.entries[i].key.data = dec.data.entry[i].key

\* C14 as stated: bytes whose version is not 1 decode to FILE_VERSION and
\* no keyring, whatever the entries contain; with version 1 and entries whose
\* keys can be made they decode with success.
C14_OtherVersionAlwaysFileVersion ==
    (dec.pc = "decoded") =>
        /\ (dec.data.version # KEYRING_VERSION) =>
               (dec.status = "FILE_VERSION" /\ dec.ring.null)
        /\ (Whole /\ dec.data.version = KEYRING_VERSION /\ BadEntries = {}) =>
               DecodedAll

\* C14 as amended: bytes that are the whole encoding of a keyring struct
\* whose version is not 1 decode to FILE_VERSION and no keyring, whether or
\* not the keys of its entries can be made; with version 1 and entries whose
\* keys can be made they decode with success; bytes cut short decode to
\* CORRUPT and no keyring whatever their version.
C14_WholeOtherVersionIsFileVersion ==
    (dec.pc = "decoded") =>
        /\ (Whole /\ dec.data.version # KEYRING_VERSION) =>
               (dec.status = "FILE_VERSION" /\ dec.ring.null)
        /\ (Whole /\ dec.data.version = KEYRING_VERSION /\ BadEntries = {}) =>
               DecodedAll
        /\ ~Whole => (dec.status = "CORRUPT" /\ dec.ring.null)

\* C14's case: version 2 in front of two entries, the first of a key type
\* that is none.
C14_Witness ==
    /\ dec.pc = "decoded" /\ Whole
    /\ dec.data.version = 2
    /\ dec.data.entry_count = 2 /\ 1 \in BadEntries
    /\ dec.status = "FILE_VERSION" /\ dec.ring.null

\* C15: when the key of an entry cannot be made, the decode returns the
\* error of webauth_key_create and no keyring, even if the entries before
\* it were added.
C15_BadEntryAbortsDecode ==
    (dec.pc = "decoded" /\ Whole /\ dec.data.version = KEYRING_VERSION
        /\ BadEntries # {}) =>
        /\ dec.ring.null
        /\ dec.status =
               LET e == dec.data.entry[SetMin(BadEntries)]
               IN KeyCreate(e.key_type, e.key_len, e.key).status
        /\ dec.status # "NONE"

\* C15's case: a first entry whose key was made and added, a second whose
\* key length is no AES key length.
C15_Witness ==
    /\ dec.pc = "decoded" /\ Whole /\ dec.data.version = KEYRING_VERSION
    /\ dec.data.entry_count = 2 /\ BadEntries = {2}
    /\ dec.data.entry[2].key_len = 5
    /\ dec.status = "INVALID" /\ dec.ring.null

(***************************************************************************)
(* SpecCodec: a keyring built by add and remove, then encoded, and the     *)
(* bytes decoded.                                                          *)
(***************************************************************************)
\* One more add or remove on the keyring, before it is encoded.
BuildStep ==
    /\ dec.pc = "idle"
    /\ \/ \E cv \in AddInputs, k \in KeyPool : Add(cv[1], cv[2], k)
       \/ \E n \in 0..MaxEntries : Remove(n)

\* webauth_keyring_encode of the keyring.
EncodeCall ==
    /\ dec.pc = "idle"
    /\ dec' = [NoDec EXCEPT !.pc = "input", !.from = ring,
                            !.bytes = KeyringEncode(ring)]
    /\ UNCHANGED <<now, ringVars, fileVars, tokVars>>

NextCodec ==
    \/ BuildStep
    \/ EncodeCall
    \/ DecodeCall

SpecCodec == InitRing /\ [][NextCodec]_vars

\* C16: for every keyring built by add and remove, the decode of its
\* encoding succeeds and gives a keyring of as many entries in the same
\* order, each with the same creation, valid_after, key type, key length
\* and key material.
C16_DecodeOfEncodeIsSame ==
    (dec.pc = "decoded" /\ dec.bytes = KeyringEncode(dec.from)) =>
        /\ dec.status = "NONE" /\ ~dec.ring.null
        /\ Len(dec.ring.entries) = Len(dec.from)
        /\ \A i \in 1..Len(dec.from) :
               /\ dec.ring.entries[i].creation = dec.from[i].creation
               /\ dec.ring.entries[i].valid_after = dec.from[i].valid_after
               /\ dec.ring.entries[i].key.type = dec.from[i].key.type
               /\ dec.ring.entries[i].key.length = dec.from[i].key.length
               /\ dec.ring.entries[i].key.data = dec.from[i].key.data

\* C16's case: a keyring of two entries of the same content, added with
\* both times zero, encoded and decoded.
C16_Witness ==
    /\ dec.pc = "decoded" /\ dec.bytes = KeyringEncode(dec.from)
    /\ Len(dec.from) = 2 /\ dec.from[1] = dec.from[2]
    /\ dec.from[1].creation = 0 /\ dec.from[1].valid_after = 0
    /\ dec.status = "NONE" /\ dec.ring.entries = dec.from

(***************************************************************************)
(* Properties of the token pipeline, checked under SpecToken.              *)
(***************************************************************************)
\* Whether the last encode was given no keyring or one of no entries.
NoUsableRing == tok.ring.null \/ tok.ring.entries = <<>>

\* C17: token encode fails with BAD_KEY whenever the keyring is null or has
\* no entries, for every record, those that fail validation included.
C17_NullOrEmptyRingIsBadKey ==
    (tok.pc = "encoded" /\ NoUsableRing) => tok.encStatus = "BAD_KEY"

\* The token types that carry an expiration.
ExpiringTypes ==
    {"APP", "CRED", "ID", "PROXY", "WEBKDC_FACTOR", "WEBKDC_PROXY",
     "WEBKDC_SERVICE"}

\* Whether the record last encoded is of a type that carries an expiration,
\* has it set, and is valid in everything but the time of that expiration:
\* with the last time of the clock in its place it passes decode-mode
\* validation.
OtherwiseValid ==
    /\ tok.pc \in {"encoded", "decoded"}
    /\ tok.data.type \in ExpiringTypes
    /\ tok.data.token.expiration # 0
    /\ check_token([tok.data EXCEPT !.token.expiration = MaxTime],
                   "DECODE", now) = "NONE"

\* Whether the last encode had a keyring with a key usable at its time and
\* the random source did not fail.
EncodeCouldSeal ==
    /\ ~tok.ring.null
    /\ Usable(tok.ring.entries, tok.encAt) # {}
    /\ tok.encStatus # "RAND_FAILURE"

\* C18: for every token type that carries an expiration, an otherwise
\* valid record with expiration < now is rejected by decode with
\* TOKEN_EXPIRED and accepted by encode, and one with expiration >= now,
\* expiration = now included, is accepted by both.
C18_ExpiredOnlyOnDecode ==
    OtherwiseValid =>
        /\ check_token(tok.data, "ENCODE", now) = "NONE"
        /\ check_token(tok.data, "DECODE", now) =
               (IF tok.data.token.expiration < now
                    THEN "TOKEN_EXPIRED" ELSE "NONE")
        /\ EncodeCouldSeal => tok.encStatus = "NONE"
        /\ DecodedWithSame =>
               tok.decStatus = (IF tok.data.token.expiration < tok.decAt
                                    THEN "TOKEN_EXPIRED" ELSE "NONE")

\* C18's case: a record already expired when it was encoded, which encode
\* accepted and decode rejected as expired.
C18_Witness ==
    /\ OtherwiseValid /\ DecodedWithSame
    /\ tok.data.token.expiration < tok.encAt
    /\ tok.encStatus = "NONE"
    /\ tok.decStatus = "TOKEN_EXPIRED"

\* The type carried in the attribute stream of the token last decoded, once
\* decrypted with the keyring of that decode; "NULL" if the token does not
\* decrypt or its stream does not parse.
CarriedType ==
    LET d == TokenDecrypt(tok.token, tok.decRing)
    IN IF d.status # "NONE" THEN "NULL"
       ELSE IF WaiDecodeToken(d.attrs).status # "NONE" THEN "NULL"
       ELSE WaiDecodeToken(d.attrs).token.type

\* Whether the last decode expected a type of the enumeration other than
\* any.
ExpectedOneType ==
    /\ tok.pc = "decoded"
    /\ \E i \in 1..Len(TokenTypes) : TokenTypes[i] = tok.type

\* C19: a decode that expects a type other than any fails with CORRUPT
\* whenever the type carried in the decrypted attribute stream is another
\* one, whatever else is true of the record; a decode that expects any
\* ends as the decode that expects the type carried, so it rejects no
\* record for its type.
C19_OtherTypeIsCorrupt ==
    /\ (ExpectedOneType /\ CarriedType # "NULL" /\ CarriedType # tok.type) =>
           (tok.decStatus = "CORRUPT" /\ tok.decoded = NoToken)
    /\ (tok.pc = "decoded" /\ tok.type = "ANY" /\ CarriedType # "NULL") =>
           /\ tok.decStatus =
                  TokenDecodeRaw(CarriedType, tok.token, tok.decRing,
                                 tok.decAt).status
           /\ tok.decoded =
                  TokenDecodeRaw(CarriedType, tok.token, tok.decRing,
                                 tok.decAt).decoded

\* C19's case: a token that carries an app record, expired by the time of
\* the decode, decoded with error expected: the answer is CORRUPT and not
\* TOKEN_EXPIRED.
C19_Witness ==
    /\ ExpectedOneType /\ tok.type = "ERROR" /\ CarriedType = "APP"
    /\ tok.data.token.expiration < tok.decAt
    /\ tok.decStatus = "CORRUPT"

\* Whether a login token has a username, exactly one of password and otp,
\* and no otp_type next to a password.
LoginAcceptable(login) ==
    /\ login.username # NULLP
    /\ (login.password # NULLP) # (login.otp # NULLP)
    /\ ~(login.otp_type # NULLP /\ login.password # NULLP)

\* Whether the last encode was of a login token.
LoginEncoded ==
    /\ tok.pc \in {"encoded", "decoded"}
    /\ tok.data.type = "LOGIN"

\* C20: a login token passes validation, in encode and in decode mode, if
\* and only if its username is set, exactly one of password and otp is set
\* and otp_type is not set together with password; every other login token
\* is rejected with CORRUPT, by validation and by the encode call.
C20_LoginAcceptedIff ==
    LoginEncoded =>
        /\ \A mode \in {"ENCODE", "DECODE"} :
               check_token(tok.data, mode, now) =
                   (IF LoginAcceptable(tok.data.token)
                        THEN "NONE" ELSE "CORRUPT")
        /\ (~tok.ring.null /\ ~LoginAcceptable(tok.data.token)) =>
               tok.encStatus = "CORRUPT"
        /\ (LoginAcceptable(tok.data.token) /\ EncodeCouldSeal) =>
               tok.encStatus = "NONE"
        /\ (LoginAcceptable(tok.data.token) /\ DecodedWithSame) =>
               tok.decStatus = "NONE"

\* C20's case: a login token with a username and both a password and an
\* otp, given to encode with a keyring that has a key.
C20_Witness ==
    /\ LoginEncoded
    /\ tok.data.token.username # NULLP
    /\ tok.data.token.password # NULLP /\ tok.data.token.otp # NULLP
    /\ tok.data.token.otp_type = NULLP
    /\ ~tok.ring.null /\ Len(tok.ring.entries) > 0
    /\ tok.encStatus = "CORRUPT"

\* The members that the table of required attributes lists for a type
\* without a condition.
RequiredFields(type) ==
    CASE type = "APP" -> {"expiration"}
      [] type = "CRED" -> {"subject", "type", "service", "data", "expiration"}
      [] type = "ERROR" -> {"code", "message"}
      [] type = "ID" -> {"auth", "expiration"}
      [] type = "LOGIN" -> {"username"}
      [] type = "PROXY" -> {"subject", "type", "webkdc_proxy", "expiration"}
      [] type = "WEBKDC_FACTOR" -> {"subject", "expiration"}
      [] type = "WEBKDC_PROXY" ->
             {"subject", "proxy_type", "proxy_subject", "expiration"}
      [] type = "WEBKDC_SERVICE" -> {"subject", "session_key", "expiration"}
      [] OTHER -> {}

\* Whether the member of a rule is missing or empty in the token: a NULL or
\* empty string or byte string, a zero number or time.
MissingOrEmpty(rule, token) ==
    IF rule.wire \in {"string", "data"}
        THEN token.token[rule.field] = NULLP
             \/ Len(token.token[rule.field][1]) = 0
        ELSE token.token[rule.field] = 0

\* Whether some required member of the token is missing or empty.
LacksRequired(token) ==
    \E i \in 1..Len(WaiTokenEncoding(token.type).rules) :
        /\ WaiTokenEncoding(token.type).rules[i].field
               \in RequiredFields(token.type)
        /\ MissingOrEmpty(WaiTokenEncoding(token.type).rules[i], token)

\* C21: for every token type, a record in which a required attribute is
\* missing or empty is rejected with CORRUPT by validation in encode and
\* in decode mode, and the encode call does not succeed.
C21_EmptyRequiredIsCorrupt ==
    (tok.pc \in {"encoded", "decoded"} /\ LacksRequired(tok.data)) =>
        /\ check_token(tok.data, "ENCODE", now) = "CORRUPT"
        /\ check_token(tok.data, "DECODE", now) = "CORRUPT"
        /\ tok.encStatus # "NONE"

\* The members of a request token other than command.
RequestOthers ==
    {"type", "auth", "proxy_type", "state", "return_url", "options",
     "initial_factors", "session_factors"}

\* Whether a request token without command has what the table asks for:
\* type, return_url and, by type, auth or proxy_type.
RequestComplete(request) ==
    /\ request.type # NULLP /\ request.return_url # NULLP
    /\ \/ request.type = Ptr(STR_ID) /\ request.auth # NULLP
       \/ request.type = Ptr(STR_PROXY) /\ request.proxy_type # NULLP

\* Whether a request token is one validation accepts: a command alone, or
\* a complete request whose auth or proxy_type is a known word.
RequestAcceptable(request) ==
    IF request.command # NULLP
        THEN \A f \in RequestOthers : request[f] = NULLP
        ELSE /\ RequestComplete(request)
             /\ request.type = Ptr(STR_ID) =>
                    request.auth \in {Ptr(STR_KRB5), Ptr(STR_WEBKDC)}
             /\ request.type = Ptr(STR_PROXY) =>
                    request.proxy_type = Ptr(STR_KRB5)

\* Whether the last encode was of a request token.
RequestEncoded ==
    /\ tok.pc \in {"encoded", "decoded"}
    /\ tok.data.type = "REQUEST"

\* C22: a request token with command set is rejected with CORRUPT if any
\* other member is set; one without command is accepted only if type and
\* return_url are set and either type is "id" with auth set or type is
\* "proxy" with proxy_type set; every request token not accepted is
\* rejected with CORRUPT, in both modes and by the encode call.
C22_RequestCommandOrComplete ==
    RequestEncoded =>
        \A mode \in {"ENCODE", "DECODE"} :
            LET status == check_token(tok.data, mode, now)
                request == tok.data.token
            IN /\ (request.command # NULLP
                      /\ \E f \in RequestOthers : request[f] # NULLP) =>
                      status = "CORRUPT"
               /\ (request.command = NULLP /\ status = "NONE") =>
                      RequestComplete(request)
               /\ status = (IF RequestAcceptable(request)
                                THEN "NONE" ELSE "CORRUPT")
               /\ (~tok.ring.null /\ status # "NONE") =>
                      tok.encStatus = "CORRUPT"

\* C22's case: a request token with a command and a return_url, given to
\* encode with a keyring that has a key.
C22_Witness ==
    /\ RequestEncoded
    /\ tok.data.token.command # NULLP
    /\ tok.data.token.return_url # NULLP
    /\ \A f \in RequestOthers \ {"return_url"} : tok.data.token[f] = NULLP
    /\ ~tok.ring.null /\ Len(tok.ring.entries) > 0
    /\ tok.encStatus = "CORRUPT"

(***************************************************************************)
(* SpecRetain: the holder of a keyring that is also in the file.  The      *)
(* holder seals one token, adds a key to its keyring in memory, calls      *)
(* auto_update on the path and takes the keyring that returns, and decodes *)
(* the token with the keyring it then has, in any order.                   *)
(***************************************************************************)
\* The tokens the holder seals: an id token that expires at time 1 or at
\* the last time of the clock.
RetainTokens ==
    {Token("ID", [auth |-> Ptr(STR_WEBKDC), expiration |-> e,
                  subject |-> Ptr(STR_A), auth_data |-> NULLP]) :
        e \in {1, MaxTime}}

InitRetain ==
    /\ now = 1
    /\ ring \in {<<TokenEntry(1, v)>> : v \in 0..1}
    /\ res = NoRes
    /\ file = FileOf(KeyringEncode(ring))
    /\ temp = [p \in Procs |-> NoFile]
    /\ stale = 0
    /\ call = [p \in Procs |-> IdleCall]
    /\ calls = 0
    /\ tok = NoTok
    /\ dec = NoDec

\* webauth_token_encode_raw with the holder's keyring.
HolderSeal == \E data \in RetainTokens : TokenEncode(data, RingOf(ring))

\* webauth_keyring_add on the holder's keyring, once.
HolderAdd ==
    /\ res.op = "none"
    /\ \E v \in {0, MaxTime}, k \in KeyPool : Add(1, v, k)

\* webauth_keyring_auto_update on the path, from its read to its return,
\* the write of check_ring included (ws is how the write ends); the holder
\* takes the keyring returned.  The holder calls it once.
HolderRotate(lifetime, ws) ==
    \E rd \in KeyringReadOutcomes(file) :
        /\ call[1].pc = "idle"
        /\ rd.status = "NONE"
        /\ Len(rd.ring.entries) < MaxEntries
        /\ \E recent \in RecentFound(rd.ring.entries, lifetime, now, 1),
              key \in RandomKeyOutcomes(WA_KEY_AES, WA_AES_128) :
               LET c == [IdleCall EXCEPT !.ringRead = rd.ring,
                                         !.ring = rd.ring]
                   w == CheckRingStep(c, recent, key, now)
                   d == IF w.pc = "w_mktemp" THEN Returned(w, ws) ELSE w
               IN /\ call' = [call EXCEPT ![1] = d]
                  /\ ring' = d.ring.entries
                  /\ file' = IF w.pc = "w_mktemp" /\ ws = "NONE"
                                 THEN FileOf(KeyringEncode(d.ring.entries))
                                 ELSE file
        /\ calls' = calls + 1
        /\ UNCHANGED <<now, res, temp, stale, tokVars, codecVars>>

\* webauth_token_decode_raw with the holder's keyring, once.
HolderDecode ==
    /\ tok.pc = "encoded"
    /\ TokenDecode(tok.data.type, RingOf(ring))

NextRetain ==
    \/ Tick
    \/ HolderSeal
    \/ HolderAdd
    \/ \E ws \in {"NONE", "FILE_WRITE"} : HolderRotate(1, ws)
    \/ HolderDecode

SpecRetain == InitRetain /\ [][NextRetain]_vars

\* Whether the entries hold, at the index it had in the keyring of the
\* seal, an entry of that keyring with the key that sealed the token.
SealEntryKept(entries) ==
    \E i \in 1..Len(tok.ring.entries) :
        /\ tok.ring.entries[i].key = tok.token.key
        /\ i <= Len(entries)
        /\ entries[i] = tok.ring.entries[i]

\* Whether the token was decoded, with its type or any expected, at a time
\* not after its expiration.
DecodeTried ==
    /\ tok.pc = "decoded"
    /\ tok.type \in {tok.data.type, "ANY"}
    /\ Unexpired(tok.data, tok.decAt)

\* Whether the file holds the entry that sealed the token, where the
\* keyring of the seal had it.
FileHoldsSealEntry ==
    /\ tok.pc = "encoded" /\ ~tok.token.null
    /\ file.exists
    /\ KeyringDecode(file.data).status = "NONE"
    /\ SealEntryKept(KeyringDecode(file.data).ring.entries)

StaleWire == [null |-> FALSE, hint |-> <<>>, key |-> NoKey, plain |-> <<>>]
StaleToken == Token("ERROR", [code |-> 0, message |-> NULLP])

\* apr_base64_encode and apr_base64_decode of a token.
Base64Encode(w) ==
    [null |-> FALSE, hint |-> w.hint, key |-> w.key, plain |-> w.plain,
     base64 |-> TRUE]
Base64Decode(b) ==
    [null |-> FALSE, hint |-> b.hint, key |-> b.key, plain |-> b.plain]

\* The records given to the encode functions: an id token that expires at
\* time 1, a login token without password or otp, and a token of no type.
OutTokens ==
    {Token("ID", [auth |-> Ptr(STR_WEBKDC), expiration |-> 1,
                  subject |-> Ptr(STR_A), auth_data |-> NULLP]),
     Token("LOGIN", [username |-> Ptr(STR_A), password |-> NULLP,
                     otp |-> NULLP, otp_type |-> NULLP]),
     Token("ANY", <<>>)}

InitOut ==
    /\ now = 1
    /\ ring \in {<<>>, <<TokenEntry(1, 0)>>}
    /\ res = NoRes
    /\ file = NoFile
    /\ temp = [p \in Procs |-> NoFile]
    /\ stale = 0
    /\ call = [p \in Procs |-> IdleCall]
    /\ calls = 0
    /\ tok \in {[NoTok EXCEPT !.token = w, !.decoded = d] :
                   w \in {NoWire, StaleWire}, d \in {NoToken, StaleToken}}
    /\ dec = NoDec

\* webauth_token_encode_raw: *token is assigned on success only.
ApiEncodeRaw(data, r) ==
    /\ tok.pc = "idle"
    /\ \E o \in TokenEncodeRawOutcomes(data, r, now) :
           tok' = [tok EXCEPT !.pc = "encode_raw", !.data = data, !.ring = r,
                              !.encAt = now, !.encStatus = o.status,
                              !.token = IF o.status = "NONE"
                                            THEN o.token ELSE tok.token]
    /\ UNCHANGED <<now, ringVars, fileVars, codecVars>>

\* webauth_token_encode: *token is set to NULL, then to the base64 form of
\* what webauth_token_encode_raw made.
ApiEncode(data, r) ==
    /\ tok.pc = "idle"
    /\ \E o \in TokenEncodeRawOutcomes(data, r, now) :
           tok' = [tok EXCEPT !.pc = "encode", !.data = data, !.ring = r,
                              !.encAt = now, !.encStatus = o.status,
                              !.token = IF o.status = "NONE"
                                            THEN Base64Encode(o.token)
                                            ELSE NoWire]
    /\ UNCHANGED <<now, ringVars, fileVars, codecVars>>

\* webauth_token_decode_raw of the token made by webauth_token_encode_raw:
\* *decoded is set to NULL first.
ApiDecodeRaw(type, r) ==
    /\ tok.pc = "encode_raw" /\ tok.encStatus = "NONE"
    /\ LET o == TokenDecodeRaw(type, tok.token, r, now)
       IN tok' = [tok EXCEPT !.pc = "decode_raw", !.type = type,
                             !.decRing = r, !.decAt = now,
                             !.decStatus = o.status, !.decoded = o.decoded]
    /\ UNCHANGED <<now, ringVars, fileVars, codecVars>>

\* webauth_token_decode of token, which is NULL or the token made by
\* webauth_token_encode: a NULL token is refused before anything else.
ApiDecode(type, token, r) ==
    /\ tok.pc = "encode"
    /\ LET o == TokenDecodeRaw(type, Base64Decode(token), r, now)
       IN tok' = [tok EXCEPT !.pc = "decode", !.type = type,
                             !.token = token,
                             !.decRing = r, !.decAt = now,
                             !.decStatus = IF token.null THEN "CORRUPT"
                                           ELSE o.status,
                             !.decoded = IF token.null THEN tok.decoded
                                         ELSE o.decoded]
    /\ UNCHANGED <<now, ringVars, fileVars, codecVars>>

NextOut ==
    \/ Tick
    \/ \E data \in OutTokens, r \in {RingOf(ring), NoRing} :
           ApiEncodeRaw(data, r)
    \/ \E data \in OutTokens, r \in {RingOf(ring), NoRing} :
           ApiEncode(data, r)
    \/ \E type \in DecodeTypes(tok.data.type), r \in {RingOf(ring), NoRing} :
           ApiDecodeRaw(type, r)
    \/ \E type \in DecodeTypes(tok.data.type), r \in {RingOf(ring), NoRing},
          token \in {tok.token, NoWire} :
           ApiDecode(type, token, r)

SpecOut == InitOut /\ [][NextOut]_vars

\* C24: whenever webauth_token_decode_raw, webauth_token_decode,
\* webauth_token_encode_raw or webauth_token_encode returns an error, its
\* output argument is NULL after the call, whatever it held before and
\* whichever step failed.
C24_ErrorLeavesOutputNull ==
    /\ (tok.pc \in {"encode_raw", "encode"} /\ tok.encStatus # "NONE") =>
           tok.token.null
    /\ (tok.pc \in {"decode_raw", "decode"} /\ tok.decStatus # "NONE") =>
           tok.decoded = NoToken

(***************************************************************************)
(* Further properties of auto_update, checked under SpecFile.              *)
(***************************************************************************)
\* C25: auto_update reports UPDATE only if the rotation was successful:
\* when making the new key or rewriting the file fails, the outcome
\* reported is not UPDATE.
C25_UpdateOnlyIfRotated ==
    \A p \in Procs :
        (call[p].pc = "returned" /\ call[p].updated = "UPDATE") =>
            /\ call[p].keyStatus = "NONE"
            /\ call[p].wstatus = "NONE"
            /\ call[p].update_status = "NONE"

\* Whether the call has returned a keyring and reported UPDATE or CREATE,
\* with a lifetime above zero.
ReportedNewKey(c) ==
    /\ c.pc = "returned"
    /\ c.updated \in {"UPDATE", "CREATE"}
    /\ c.lifetime > 0
    /\ ~c.ring.null

\* Whether best_key for encryption, at the time of the call, gives the last
\* entry of the keyring returned and that entry is one the keyring read
\* did not have.
BestIsNewKey(c) ==
    /\ Len(c.ring.entries) = Len(c.ringRead.entries) + 1
    /\ BestKey(c.ring.entries, "ENCRYPT", 0, c.at).idx = Len(c.ring.entries)

\* C26: immediately after auto_update reports UPDATE or CREATE with
\* lifetime > 0, best_key with usage ENCRYPT on the keyring returned gives
\* the newly made key and no key that the keyring had before the call.
C26_BestKeyIsNewKey ==
    \A p \in Procs : ReportedNewKey(call[p]) => BestIsNewKey(call[p])

(***************************************************************************)
(* The order of the checks of decode, checked under SpecToken.             *)
(***************************************************************************)
\* Whether the last decode expected any or a type of the enumeration.
ExpectedKnown == tok.pc = "decoded" /\ (tok.type = "ANY" \/ ExpectedOneType)

\* The status the steps of decode give when taken in the order decrypt,
\* parse, type match, validation, each only if the ones before it passed.
StatusInOrder ==
    LET d == TokenDecrypt(tok.token, tok.decRing)
        w == WaiDecodeToken(d.attrs)
    IN IF d.status # "NONE" THEN d.status
       ELSE IF w.status # "NONE" THEN w.status
       ELSE IF tok.type # "ANY" /\ tok.type # w.token.type THEN "CORRUPT"
       ELSE check_token(w.token, "DECODE", tok.decAt)

\* C27: decode checks in the order decrypt, parse, type match, validation
\* and returns at the first failure: a token that no key of the keyring
\* authenticates gives the decryption error whatever the record in it, and
\* a decrypted record of an unexpected type that is also expired gives
\* CORRUPT, never TOKEN_EXPIRED.
C27_DecodeChecksInOrder ==
    ExpectedKnown =>
        /\ tok.decStatus = StatusInOrder
        /\ (~tok.decRing.null
              /\ \A i \in 1..Len(tok.decRing.entries) :
                     tok.decRing.entries[i].key # tok.token.key) =>
               (tok.decStatus = "BAD_HMAC" /\ tok.decoded = NoToken)
        /\ (CarriedType # "NULL" /\ tok.type # "ANY"
              /\ CarriedType # tok.type) =>
               tok.decStatus # "TOKEN_EXPIRED"

\* C27's case: a token with an expired record of another type than the
\* one expected, decoded with a keyring that has no key for it.
C27_Witness ==
    /\ ExpectedOneType
    /\ tok.type # tok.data.type
    /\ tok.data.type \in ExpiringTypes
    /\ tok.data.token.expiration < tok.decAt
    /\ ~tok.decRing.null
    /\ tok.decStatus = "BAD_HMAC"

(***************************************************************************)
(* The failed read of auto_update, checked under SpecFile.                 *)
(***************************************************************************)
\* Whether the call has returned after a read that failed with an error
\* other than FILE_NOT_FOUND, or with FILE_NOT_FOUND and create false.
ReadFailedForGood(c) ==
    /\ c.pc = "returned"
    /\ c.readStatus # "NONE"
    /\ c.readStatus # "FILE_NOT_FOUND" \/ ~c.create

\* C28: when the read of the keyring file fails with an error other than
\* FILE_NOT_FOUND, or with FILE_NOT_FOUND while create is false,
\* auto_update returns that error with updated NONE and update_status
\* NONE, returns no keyring, and creates, writes and renames no file: the
\* file under the path is as it was, also when create is true.
C28_FailedReadTouchesNothing ==
    \A p \in Procs :
        ReadFailedForGood(call[p]) =>
            /\ call[p].status = call[p].readStatus
            /\ call[p].updated = "NONE"
            /\ call[p].update_status = "NONE"
            /\ call[p].ring.null
            /\ ~call[p].made /\ call[p].via = "none"
            /\ ~temp[p].exists
            /\ file = call[p].fileBefore

\* C28's case: the file is there but of another format version, and
\* auto_update was asked to create.
C28_Witness ==
    /\ ReadFailedForGood(call[1])
    /\ call[1].create
    /\ call[1].readStatus = "FILE_VERSION"
    /\ file.exists /\ file = call[1].fileBefore
    /\ call[1].status = "FILE_VERSION"

(***************************************************************************)
(* Two processes in webauth_keyring_auto_update on the same path at once.  *)
(* The functions take no lock on the path: each process reads the file,    *)
(* builds its keyring and renames its own temporary over the path, and its  *)
(* steps interleave with those of the other in any order.                  *)
(***************************************************************************)
\* The path before the two calls: no file, or a keyring of one old key.
RaceFiles == {NoFile, FileOf(KeyringEncode(<<InitEntry(0)>>))}

InitRace ==
    /\ now = 1
    /\ ring = KeyringNew
    /\ res = NoRes
    /\ file \in RaceFiles
    /\ temp = [p \in Procs |-> NoFile]
    /\ stale = 0
    /\ call = [p \in Procs |-> IdleCall]
    /\ calls = 0
    /\ tok = NoTok
    /\ dec = NoDec

\* Process p calls auto_update, once, asking for creation and for rotation
\* at the given lifetime; it reads the file as it is at that moment.
RaceCall(p, lifetime) ==
    /\ call[p].pc = "idle"
    /\ \E rd \in KeyringReadOutcomes(file) :
           AutoUpdate(p, TRUE, lifetime, rd)

NextRace ==
    \/ Tick
    \/ \E p \in Procs : RaceCall(p, 1)
    \/ \E p \in Procs : WriteStep(p)

SpecRace == InitRace /\ [][NextRace]_vars

\* Whether the call of process p created or rotated, wrote its keyring and
\* returned with success.
RotatedAndWrote(p) ==
    /\ call[p].pc = "returned"
    /\ call[p].updated \in {"CREATE", "UPDATE"}
    /\ call[p].status = "NONE" /\ call[p].update_status = "NONE"
    /\ Wrote(p)

\* Whether the file under the path holds every entry of the keyring.
FileHoldsAll(entries) ==
    /\ file.exists
    /\ LET rd == KeyringDecode(file.data)
       IN /\ rd.status = "NONE"
          /\ \A i \in 1..Len(entries) :
                 \E j \in 1..Len(rd.ring.entries) :
                     rd.ring.entries[j] = entries[i]

\* C29: when two processes run auto_update on the same path at once and
\* both create or rotate, then after both have returned with successful
\* writes the file holds every key of the keyring either of them returned.
C29_ConcurrentRotationKeepsKeys ==
    (\A p \in Procs : RotatedAndWrote(p)) =>
        \A p \in Procs : FileHoldsAll(call[p].ring.entries)

(***************************************************************************)
(* The two modes of validation, checked under SpecToken on the record last *)
(* handed to encode.                                                       *)
(***************************************************************************)
\* The types whose check never looks at the clock.
UnexpiringTypes == {"ERROR", "LOGIN", "REQUEST"}

\* The result of check_token on the record last handed to encode, in the
\* given mode at time t.
ModeResult(mode, t) == check_token(tok.data, mode, t)

\* C30: validation when decoding is validation when encoding plus the check
\* of the expiration against the clock and nothing else: a record accepted
\* when decoding is accepted when encoding, a record accepted when encoding
\* whose expiration is not before the clock is accepted when decoding, and
\* for error, login and request records the two modes give the same result.
C30_DecodeIsEncodePlusExpiry ==
    tok.pc \in {"encoded", "decoded"} =>
        \A t \in 0..MaxTime :
            /\ ModeResult("DECODE", t) = "NONE" =>
                   ModeResult("ENCODE", t) = "NONE"
            /\ ModeResult("DECODE", t) \notin {"NONE", "TOKEN_EXPIRED"} =>
                   ModeResult("ENCODE", t) # "NONE"
            /\ (/\ tok.data.type \in ExpiringTypes
                /\ ModeResult("ENCODE", t) = "NONE"
                /\ tok.data.token.expiration >= t) =>
                   ModeResult("DECODE", t) = "NONE"
            /\ tok.data.type \in UnexpiringTypes =>
                   ModeResult("DECODE", t) = ModeResult("ENCODE", t)

\* C30's case: a record of a type with an expiration that encode accepted
\* after its expiration and that decode, with the same keyring, turned down
\* as expired and for no other reason.
C30_Witness ==
    /\ tok.pc = "decoded"
    /\ tok.data.type \in ExpiringTypes
    /\ tok.data.token.expiration < now
    /\ tok.encStatus = "NONE"
    /\ ModeResult("ENCODE", now) = "NONE"
    /\ tok.decStatus = "TOKEN_EXPIRED"
    /\ ModeResult("DECODE", now) = "TOKEN_EXPIRED"
    /\ ModeResult("DECODE", tok.data.token.expiration) = "NONE"

====
